---- MODULE Spec2Model ----
(***************************************************************************)
(* A model of the dogechain-bubblemaps API request handlers and of the     *)
(* relational store they share.  Every handler is translated from its      *)
(* route file; a handler that awaits more than one storage statement is a  *)
(* process with one action per statement, a handler that awaits a single   *)
(* statement is one action.  Text values are sequences of one-character    *)
(* strings so that the regular expressions, toLowerCase and substring of   *)
(* the handlers are computed, not assumed.                                 *)
(***************************************************************************)
EXTENDS Integers, Sequences, FiniteSets, Bags, TLC

(***************************************************************************)
(* Bounds of the model.                                                    *)
(***************************************************************************)
\* number of concurrently running multi-statement handlers
NumProcs == 2

\* number of requests the single-statement handlers serve in one behaviour
MaxRequests == 3

\* the clock stops after this many seconds
MaxTime == 2

\* number of requests of the client that re-issues its writes
MaxWrites == 2

(***************************************************************************)
(* Program constants.                                                      *)
(***************************************************************************)
\* LEAST(100, ...) of the popularity score
MAX_POPULARITY == 100

\* scoreIncrease of a 'click' and of a 'select' interaction
CLICK_POINTS == 3

SELECT_POINTS == 5

\* popularity added by POST /api/learned-tokens and POST /api/wallet-scan
LEARNED_POINTS == 5

SCAN_POINTS == 2

\* {40} of the address patterns, {64} of the session pattern
ADDR_HEX_LEN == 40

SESSION_HEX_LEN == 64

\* substring(0, 50) / slice(0, 50) and substring(0, 255) / slice(0, 255)
SYMBOL_MAX == 50

NAME_MAX == 255

(***************************************************************************)
(* Text.                                                                   *)
(***************************************************************************)
HexLower == {"0", "1", "2", "3", "4", "5", "6", "7", "8", "9",
             "a", "b", "c", "d", "e", "f"}

HexUpper == {"A", "B", "C", "D", "E", "F"}

\* String.prototype.toLowerCase on the characters the model uses
ToLowerChar(c) ==
  CASE c = "A" -> "a" [] c = "B" -> "b" [] c = "C" -> "c" [] c = "D" -> "d"
    [] c = "E" -> "e" [] c = "F" -> "f" [] c = "X" -> "x" [] c = "G" -> "g"
    [] OTHER -> c

ToLowerCase(s) == [i \in 1..Len(s) |-> ToLowerChar(s[i])]

\* the string of n characters c
Rep(c, n) == [i \in 1..n |-> c]

\* s.substring(0, n) and s.slice(0, n) for n >= 0
Substring0(s, n) == SubSeq(s, 1, IF Len(s) < n THEN Len(s) ELSE n)

\* SQL NULL in a text column; no text of the model equals it
NULL == <<"NULL">>

\* JavaScript's  s || dflt  for a text s (the empty string is falsy)
OrElse(s, dflt) == IF s = <<>> THEN dflt ELSE s

\* SQL COALESCE(a, b)
Coalesce(a, b) == IF a = NULL THEN b ELSE a

\* /^0x[a-f0-9]{40}$/
IsLowerAddress(s) ==
  /\ Len(s) = ADDR_HEX_LEN + 2
  /\ s[1] = "0"
  /\ s[2] = "x"
  /\ \A i \in 3..Len(s) : s[i] \in HexLower

\* /^0x[a-f0-9]{40}$/i
IsAddressIgnoreCase(s) ==
  /\ Len(s) = ADDR_HEX_LEN + 2
  /\ s[1] = "0"
  /\ s[2] \in {"x", "X"}
  /\ \A i \in 3..Len(s) : s[i] \in HexLower \cup HexUpper

\* /^0x[a-fA-F0-9]{40}$/
IsMixedAddress(s) ==
  /\ Len(s) = ADDR_HEX_LEN + 2
  /\ s[1] = "0"
  /\ s[2] = "x"
  /\ \A i \in 3..Len(s) : s[i] \in HexLower \cup HexUpper

\* /^[a-f0-9]{64}$/i
IsSessionId(s) ==
  /\ Len(s) = SESSION_HEX_LEN
  /\ \A i \in 1..Len(s) : s[i] \in HexLower \cup HexUpper

Min(a, b) == IF a < b THEN a ELSE b

\* the increment without its cap
UncappedScore(score, delta) == score + delta

\* SQL LEAST(100, score + delta)
ClampedScore(score, delta) == Min(MAX_POPULARITY, score + delta)

(***************************************************************************)
(* Inputs.                                                                 *)
(***************************************************************************)
\* "0x" followed by forty copies of one character
MkAddr(c) == <<"0", "x">> \o Rep(c, ADDR_HEX_LEN)

ADDR_A == MkAddr("a")

ADDR_A_UPPER == <<"0", "X">> \o Rep("A", ADDR_HEX_LEN)

ADDR_A_MIXED == <<"0", "x">> \o Rep("A", ADDR_HEX_LEN)

ADDR_B == MkAddr("b")

ADDR_BAD == MkAddr("g")

ADDR_SHORT == <<"0", "x">> \o Rep("a", ADDR_HEX_LEN - 1)

DOGE == <<"d", "o", "g", "e">>

(***************************************************************************)
(* State.                                                                  *)
(***************************************************************************)
VARIABLES
  storeUp,                    \* whether the database answers (neon sql`...`)
  now,                        \* the clock: NOW() and Date.now(), in seconds
  learned_tokens,             \* table: address -> row
  token_interactions,         \* table: bag of rows
  wallet_scan_contributions,  \* table: set of <<wallet_address, token_address>>
  score0,                     \* popularity_score of the token when the requests began (0: no row)
  pc,                         \* position of each multi-statement handler
  req,                        \* its request body
  loc,                        \* its local variables
  resp,                       \* its response, once it has answered
  trending_searches,          \* table: address -> row
  logCalls,                   \* per lower-cased address, the times of the applied log upserts
  token_popularity,           \* table: token_address -> row
  lastReq,                    \* the request a single-statement handler served last
  lastResp,                   \* and its response
  nreq,                       \* number of requests the single-statement handlers served
  trendingSeen,               \* the latest response of GET /api/trending
  search_events,              \* table: rows in insertion order
  click_events,               \* table: rows in insertion order
  token_search_index,         \* table: address -> row
  triggered_alerts,           \* table: bag of rows
  alert_counters,             \* table: the row with id = 1
  alert_schema,               \* the migration that created unique_alert_trigger
  cache,                      \* per route, the module variable `cache` of its instance
  lastSyncTime,               \* the module variable of the sync route
  dex_pools,                  \* table: pool_address -> row
  dexCache                    \* the module variable `cache` of GET /api/dex-analytics

learnedVars == <<learned_tokens, token_interactions, wallet_scan_contributions, score0>>

procVars == <<pc, req, loc, resp>>

envVars == <<storeUp, now>>

aggVars == <<trending_searches, logCalls, token_popularity>>

callVars == <<lastReq, lastResp, nreq, trendingSeen>>

eventVars == <<search_events, click_events, token_search_index>>

alertVars == <<triggered_alerts, alert_counters, alert_schema>>

dexVars == <<lastSyncTime, dex_pools, dexCache>>

Procs == 1..NumProcs

NoReq == [kind |-> "none"]

NoLoc == [i |-> 0, exists |-> FALSE, added |-> 0, updated |-> 0, processed |-> 0]

NoResp == [status |-> 0]

\* column defaults of learned_tokens, used by an INSERT that names no value
DEFAULT_POPULARITY == 0

DEFAULT_SCAN_FREQUENCY == 0

\* the popularity_score stored for address a, 0 when there is no row
ScoreOf(table, a) == IF a \in DOMAIN table THEN table[a].popularity_score ELSE 0

(***************************************************************************)
(* POST /api/interactions                                                  *)
(***************************************************************************)
InteractionBody(ta, ty, qt) ==
  [kind |-> "interaction", tokenAddress |-> ta, interactionType |-> ty,
   queryText |-> qt, sessionId |-> <<>>, resultPosition |-> 0]

\* the bodies the clients send: both spellings of one token, every
\* interaction type, and one body for each validation failure
InteractionBodies ==
  {InteractionBody(ADDR_A, ty, DOGE) : ty \in {"search", "click", "select"}}
    \cup {InteractionBody(ADDR_A_UPPER, ty, <<>>) : ty \in {"click", "select"}}
    \cup {InteractionBody(<<>>, "select", <<>>),
          InteractionBody(ADDR_A, "", <<>>),
          InteractionBody(ADDR_A, "hover", <<>>),
          InteractionBody(ADDR_BAD, "select", <<>>)}

validTypes == {"search", "click", "select"}

\* const address = String(tokenAddress).toLowerCase()
AddressOf(body) == ToLowerCase(body.tokenAddress)

\* the two increments exchanged
ScoreIncreaseSwapped(interactionType) ==
  IF interactionType = "click" THEN SELECT_POINTS
  ELSE IF interactionType = "select" THEN CLICK_POINTS
  ELSE 0

\* let scoreIncrease = 0; if click 3 else if select 5
ScoreIncrease(interactionType) ==
  IF interactionType = "click" THEN CLICK_POINTS
  ELSE IF interactionType = "select" THEN SELECT_POINTS
  ELSE 0

\* the row INSERT INTO learned_tokens ... VALUES (address, symbol, name, 'TOKEN', 0) adds
EnsuredRow(body) ==
  [symbol |-> OrElse(Substring0(body.queryText, SYMBOL_MAX), <<"U", "N", "K", "N", "O", "W", "N">>),
   name |-> OrElse(Substring0(body.queryText, NAME_MAX), <<"U", "n", "k", "n", "o", "w", "n">>),
   type |-> "TOKEN",
   popularity_score |-> 0,
   scan_frequency |-> DEFAULT_SCAN_FREQUENCY]

\* INSERT ... ON CONFLICT (address) DO NOTHING
InsertIfAbsent(table, a, row) ==
  IF a \in DOMAIN table THEN table
  ELSE [x \in DOMAIN table \cup {a} |-> IF x = a THEN row ELSE table[x]]

\* the row INSERT INTO token_interactions adds
InteractionRow(body) ==
  [token_address |-> AddressOf(body),
   interaction_type |-> body.interactionType,
   session_id |-> OrElse(body.sessionId, NULL),
   query_text |-> OrElse(body.queryText, NULL),
   result_position |-> body.resultPosition]

\* UPDATE learned_tokens SET popularity_score = LEAST(100, popularity_score + d)
\* WHERE address = a
UpdateScore(table, a, d) ==
  [x \in DOMAIN table |->
     IF x = a
     THEN [table[x] EXCEPT !.popularity_score = ClampedScore(table[x].popularity_score, d)]
     ELSE table[x]]

Answer(p, r) ==
  /\ resp' = [resp EXCEPT ![p] = r]
  /\ pc' = [pc EXCEPT ![p] = "done"]

\* the foreign key violation rethrown to the outer catch
FailedLogging == [status |-> 500, logged |-> FALSE]

\* if (err.code === '23503') return { success: true, logged: false }
SkippedLogging == [status |-> 200, logged |-> FALSE]

\* request.json() and the three validations; nothing is awaited
IxStart(p) ==
  /\ pc[p] = "idle"
  /\ \E body \in InteractionBodies :
       /\ req' = [req EXCEPT ![p] = body]
       /\ IF body.tokenAddress = <<>> \/ body.interactionType = ""
          THEN Answer(p, [status |-> 400, logged |-> FALSE])
          ELSE IF body.interactionType \notin validTypes
          THEN Answer(p, [status |-> 400, logged |-> FALSE])
          ELSE IF ~IsLowerAddress(AddressOf(body))
          THEN Answer(p, [status |-> 400, logged |-> FALSE])
          ELSE /\ pc' = [pc EXCEPT ![p] = "ix_ensure"]
               /\ resp' = resp
  /\ UNCHANGED <<dexVars, alertVars, cache, loc, learnedVars, envVars, aggVars, eventVars, callVars>>

\* the ensure-token INSERT; its failure is logged and ignored
IxEnsure(p) ==
  /\ pc[p] = "ix_ensure"
  /\ learned_tokens' =
       IF storeUp
       THEN InsertIfAbsent(learned_tokens, AddressOf(req[p]), EnsuredRow(req[p]))
       ELSE learned_tokens
  /\ pc' = [pc EXCEPT ![p] = "ix_log"]
  /\ UNCHANGED <<dexVars, alertVars, cache, req, loc, resp, token_interactions, wallet_scan_contributions,
                 score0, envVars, aggVars, eventVars, callVars>>

\* the INSERT INTO token_interactions, its catch, and the choice of scoreIncrease
IxLog(p) ==
  /\ pc[p] = "ix_log"
  /\ IF ~storeUp
     THEN /\ Answer(p, [status |-> 500, logged |-> FALSE])
          /\ UNCHANGED token_interactions
     ELSE IF AddressOf(req[p]) \notin DOMAIN learned_tokens
     THEN \* foreign key violation 23503
          /\ Answer(p, SkippedLogging)
          /\ UNCHANGED token_interactions
     ELSE /\ token_interactions' = token_interactions (+) SetToBag({InteractionRow(req[p])})
          /\ IF ScoreIncrease(req[p].interactionType) > 0
             THEN /\ pc' = [pc EXCEPT ![p] = "ix_update"]
                  /\ resp' = resp
             ELSE Answer(p, [status |-> 200, logged |-> TRUE])
  /\ UNCHANGED <<dexVars, alertVars, cache, req, loc, learned_tokens, wallet_scan_contributions, score0, envVars, aggVars, eventVars, callVars>>

\* the UPDATE of popularity_score and the response
IxUpdate(p) ==
  /\ pc[p] = "ix_update"
  /\ IF storeUp
     THEN /\ learned_tokens' = UpdateScore(learned_tokens, AddressOf(req[p]),
                                           ScoreIncrease(req[p].interactionType))
          /\ Answer(p, [status |-> 200, logged |-> TRUE])
     ELSE /\ Answer(p, [status |-> 500, logged |-> FALSE])
          /\ UNCHANGED learned_tokens
  /\ UNCHANGED <<dexVars, alertVars, cache, req, loc, token_interactions, wallet_scan_contributions, score0, envVars, aggVars, eventVars, callVars>>

(***************************************************************************)
(* POST /api/learned-tokens                                                *)
(***************************************************************************)
Token(a, ty, nm, sy) == [address |-> a, type |-> ty, name |-> nm, symbol |-> sy]

\* const tokens = Array.isArray(body) ? body : [body]: no token, one token in
\* either spelling, a skipped token before a token, one token twice
LearnedBodies ==
  {[kind |-> "learned", tokens |-> t] :
     t \in {<<>>,
            <<Token(ADDR_A, "TOKEN", DOGE, DOGE)>>,
            <<Token(ADDR_A_MIXED, "NFT", <<>>, <<>>)>>,
            <<Token(<<>>, "TOKEN", DOGE, DOGE), Token(ADDR_A, "TOKEN", <<>>, <<>>)>>}}

\* the least member of a set of indices, or dflt when it is empty
LeastOr(S, dflt) == IF S = {} THEN dflt ELSE CHOOSE j \in S : \A k \in S : j <= k

\* if (!token.address || !token.type) continue
LearnedTokenOk(t) == t.address # <<>> /\ t.type # ""

NextLearnedToken(tokens, i) ==
  LeastOr({j \in i..Len(tokens) : LearnedTokenOk(tokens[j])}, Len(tokens) + 1)

\* name = token.name ? String(token.name).slice(0, 255) : null
NameOf(t) == IF t.name = <<>> THEN NULL ELSE Substring0(t.name, NAME_MAX)

SymbolOf(t) == IF t.symbol = <<>> THEN NULL ELSE Substring0(t.symbol, SYMBOL_MAX)

TypeOf(t) == IF t.type = "NFT" THEN "NFT" ELSE "TOKEN"

\* UPDATE learned_tokens SET name = COALESCE(..), symbol = COALESCE(..),
\* the update with scan_frequency decremented instead of incremented
UpdateLearnedDecrementing(table, a, t, d) ==
  [x \in DOMAIN table |->
     IF x = a
     THEN [table[x] EXCEPT
             !.name = Coalesce(NameOf(t), @),
             !.symbol = Coalesce(SymbolOf(t), @),
             !.scan_frequency = @ - 1,
             !.popularity_score = ClampedScore(@, d)]
     ELSE table[x]]

\* scan_frequency = scan_frequency + 1, popularity_score = LEAST(100, .. + d)
\* WHERE address = a
UpdateLearned(table, a, t, d) ==
  [x \in DOMAIN table |->
     IF x = a
     THEN [table[x] EXCEPT
             !.name = Coalesce(NameOf(t), @),
             !.symbol = Coalesce(SymbolOf(t), @),
             !.scan_frequency = @ + 1,
             !.popularity_score = ClampedScore(@, d)]
     ELSE table[x]]

\* the row a plain INSERT INTO learned_tokens adds
LearnedRow(t, scans) ==
  [symbol |-> SymbolOf(t), name |-> NameOf(t), type |-> TypeOf(t),
   popularity_score |-> DEFAULT_POPULARITY, scan_frequency |-> scans]

\* INSERT INTO learned_tokens; the caller has checked the unique constraint
InsertRow(table, a, row) ==
  [x \in DOMAIN table \cup {a} |-> IF x = a THEN row ELSE table[x]]

LtCurrent(p) == req[p].tokens[loc[p].i]

\* after a token is done: go to the next one or answer
LtAdvance(p, l) ==
  LET j == NextLearnedToken(req[p].tokens, l.i + 1) IN
    IF j > Len(req[p].tokens)
    THEN /\ Answer(p, [status |-> 200, added |-> l.added, updated |-> l.updated, err |-> ""])
         /\ loc' = [loc EXCEPT ![p] = l]
    ELSE /\ pc' = [pc EXCEPT ![p] = "lt_select"]
         /\ loc' = [loc EXCEPT ![p] = [l EXCEPT !.i = j]]
         /\ resp' = resp

LtStart(p) ==
  /\ pc[p] = "idle"
  /\ \E body \in LearnedBodies :
       /\ req' = [req EXCEPT ![p] = body]
       /\ IF Len(body.tokens) = 0
          THEN /\ Answer(p, [status |-> 400, added |-> 0, updated |-> 0, err |-> ""])
               /\ loc' = loc
          ELSE LET j == NextLearnedToken(body.tokens, 1) IN
                 IF j > Len(body.tokens)
                 THEN /\ Answer(p, [status |-> 200, added |-> 0, updated |-> 0, err |-> ""])
                      /\ loc' = loc
                 ELSE /\ pc' = [pc EXCEPT ![p] = "lt_select"]
                      /\ loc' = [loc EXCEPT ![p] = [NoLoc EXCEPT !.i = j]]
                      /\ resp' = resp
  /\ UNCHANGED <<dexVars, alertVars, cache, learnedVars, envVars, aggVars, eventVars, callVars>>

\* SELECT id FROM learned_tokens WHERE address = ...
LtSelect(p) ==
  /\ pc[p] = "lt_select"
  /\ IF storeUp
     THEN /\ loc' = [loc EXCEPT ![p].exists =
                       ToLowerCase(LtCurrent(p).address) \in DOMAIN learned_tokens]
          /\ pc' = [pc EXCEPT ![p] = "lt_write"]
          /\ resp' = resp
     ELSE /\ Answer(p, [status |-> 400, added |-> loc[p].added,
                        updated |-> loc[p].updated, err |-> "unreachable"])
          /\ loc' = loc
  /\ UNCHANGED <<dexVars, alertVars, cache, req, learnedVars, envVars, aggVars, eventVars, callVars>>

\* if (existing.length > 0) UPDATE ... else INSERT ...
LtWrite(p) ==
  /\ pc[p] = "lt_write"
  /\ LET a == ToLowerCase(LtCurrent(p).address) IN
       IF ~storeUp
       THEN /\ Answer(p, [status |-> 400, added |-> loc[p].added,
                          updated |-> loc[p].updated, err |-> "unreachable"])
            /\ UNCHANGED <<loc, learned_tokens>>
       ELSE IF loc[p].exists
       THEN /\ learned_tokens' = UpdateLearned(learned_tokens, a, LtCurrent(p), LEARNED_POINTS)
            /\ LtAdvance(p, [loc[p] EXCEPT !.updated = @ + 1])
       ELSE IF a \in DOMAIN learned_tokens
       THEN \* unique violation 23505: another request inserted the row
            /\ Answer(p, [status |-> 400, added |-> loc[p].added,
                          updated |-> loc[p].updated, err |-> "23505"])
            /\ UNCHANGED <<loc, learned_tokens>>
       ELSE /\ learned_tokens' = InsertRow(learned_tokens, a,
                                           LearnedRow(LtCurrent(p), DEFAULT_SCAN_FREQUENCY))
            /\ LtAdvance(p, [loc[p] EXCEPT !.added = @ + 1])
  /\ UNCHANGED <<dexVars, alertVars, cache, req, token_interactions, wallet_scan_contributions, score0, envVars, aggVars, eventVars, callVars>>

(***************************************************************************)
(* POST /api/wallet-scan                                                   *)
(***************************************************************************)
ScanBody(w, hasT, ts, hasN, ns) ==
  [kind |-> "scan", walletAddress |-> w, hasTokens |-> hasT, tokens |-> ts,
   hasNfts |-> hasN, nfts |-> ns]

ScanBodies ==
  {ScanBody(ADDR_B, TRUE, <<Token(ADDR_A, "", DOGE, DOGE)>>, FALSE, <<>>),
   ScanBody(ADDR_B, TRUE, <<Token(ADDR_BAD, "", <<>>, <<>>)>>,
            TRUE, <<Token(ADDR_A_UPPER, "", <<>>, <<>>)>>),
   ScanBody(ADDR_B, TRUE, <<>>, TRUE, <<>>),
   ScanBody(ADDR_B, FALSE, <<>>, FALSE, <<>>),
   ScanBody(<<>>, TRUE, <<>>, FALSE, <<>>),
   ScanBody(ADDR_BAD, TRUE, <<>>, FALSE, <<>>)}

\* allAssets = [...tokens typed TOKEN, ...nfts typed NFT]
AllAssets(body) ==
  [i \in 1..Len(body.tokens) |-> [body.tokens[i] EXCEPT !.type = "TOKEN"]]
    \o [i \in 1..Len(body.nfts) |-> [body.nfts[i] EXCEPT !.type = "NFT"]]

\* if (!address) continue; if (!regex.test(address)) continue
ScanAssetOk(t) == t.address # <<>> /\ IsLowerAddress(ToLowerCase(t.address))

NextScanAsset(assets, i) ==
  LeastOr({j \in i..Len(assets) : ScanAssetOk(assets[j])}, Len(assets) + 1)

WsCurrent(p) == AllAssets(req[p])[loc[p].i]

WsStart(p) ==
  /\ pc[p] = "idle"
  /\ \E body \in ScanBodies :
       /\ req' = [req EXCEPT ![p] = body]
       /\ IF body.walletAddress = <<>> \/ (~body.hasTokens /\ ~body.hasNfts)
          THEN /\ Answer(p, [status |-> 400, processed |-> 0, err |-> ""])
               /\ loc' = loc
          ELSE IF ~IsLowerAddress(ToLowerCase(body.walletAddress))
          THEN /\ Answer(p, [status |-> 400, processed |-> 0, err |-> ""])
               /\ loc' = loc
          ELSE LET j == NextScanAsset(AllAssets(body), 1) IN
                 IF j > Len(AllAssets(body))
                 THEN \* no assets, or every asset skipped
                      /\ Answer(p, [status |-> 200, processed |-> 0, err |-> ""])
                      /\ loc' = loc
                 ELSE /\ pc' = [pc EXCEPT ![p] = "ws_select"]
                      /\ loc' = [loc EXCEPT ![p] = [NoLoc EXCEPT !.i = j]]
                      /\ resp' = resp
  /\ UNCHANGED <<dexVars, alertVars, cache, learnedVars, envVars, aggVars, eventVars, callVars>>

WsSelect(p) ==
  /\ pc[p] = "ws_select"
  /\ IF storeUp
     THEN /\ loc' = [loc EXCEPT ![p].exists =
                       ToLowerCase(WsCurrent(p).address) \in DOMAIN learned_tokens]
          /\ pc' = [pc EXCEPT ![p] = "ws_write"]
          /\ resp' = resp
     ELSE /\ Answer(p, [status |-> 500, processed |-> loc[p].processed, err |-> "unreachable"])
          /\ loc' = loc
  /\ UNCHANGED <<dexVars, alertVars, cache, req, learnedVars, envVars, aggVars, eventVars, callVars>>

WsWrite(p) ==
  /\ pc[p] = "ws_write"
  /\ LET a == ToLowerCase(WsCurrent(p).address) IN
       IF ~storeUp
       THEN /\ Answer(p, [status |-> 500, processed |-> loc[p].processed, err |-> "unreachable"])
            /\ UNCHANGED learned_tokens
       ELSE IF loc[p].exists
       THEN /\ learned_tokens' = UpdateLearned(learned_tokens, a, WsCurrent(p), SCAN_POINTS)
            /\ pc' = [pc EXCEPT ![p] = "ws_contrib"]
            /\ resp' = resp
       ELSE IF a \in DOMAIN learned_tokens
       THEN \* unique violation 23505
            /\ Answer(p, [status |-> 500, processed |-> loc[p].processed, err |-> "23505"])
            /\ UNCHANGED learned_tokens
       ELSE /\ learned_tokens' = InsertRow(learned_tokens, a, LearnedRow(WsCurrent(p), 1))
            /\ pc' = [pc EXCEPT ![p] = "ws_contrib"]
            /\ resp' = resp
  /\ UNCHANGED <<dexVars, alertVars, cache, req, loc, token_interactions, wallet_scan_contributions, score0, envVars, aggVars, eventVars, callVars>>

\* INSERT INTO wallet_scan_contributions ... ON CONFLICT DO NOTHING, errors ignored;
\* processedCount++ and the next asset
WsContrib(p) ==
  /\ pc[p] = "ws_contrib"
  /\ wallet_scan_contributions' =
       IF storeUp
       THEN wallet_scan_contributions
              \cup {<<ToLowerCase(req[p].walletAddress), ToLowerCase(WsCurrent(p).address)>>}
       ELSE wallet_scan_contributions
  /\ LET l == [loc[p] EXCEPT !.processed = @ + 1]
         j == NextScanAsset(AllAssets(req[p]), l.i + 1) IN
       IF j > Len(AllAssets(req[p]))
       THEN /\ Answer(p, [status |-> 200, processed |-> l.processed, err |-> ""])
            /\ loc' = [loc EXCEPT ![p] = l]
       ELSE /\ pc' = [pc EXCEPT ![p] = "ws_select"]
            /\ loc' = [loc EXCEPT ![p] = [l EXCEPT !.i = j]]
            /\ resp' = resp
  /\ UNCHANGED <<dexVars, alertVars, cache, req, learned_tokens, token_interactions, score0, envVars, aggVars, eventVars, callVars>>

(***************************************************************************)
(* POST /api/trending/log                                                  *)
(***************************************************************************)
LogBody(a, ty, sy, nm) ==
  [kind |-> "log", address |-> a, assetType |-> ty, symbol |-> sy, name |-> nm]

\* one token in two spellings and a second token, with and without a symbol,
\* and one body for each validation failure
LogBodies ==
  {LogBody(ADDR_A, "TOKEN", <<>>, <<>>),
   LogBody(ADDR_A_MIXED, "NFT", DOGE, DOGE),
   LogBody(ADDR_B, "NFT", DOGE, <<>>),
   LogBody(<<>>, "TOKEN", <<>>, <<>>),
   LogBody(ADDR_A, "", <<>>, <<>>),
   LogBody(ADDR_A, "COIN", <<>>, <<>>),
   LogBody(ADDR_A_UPPER, "TOKEN", <<>>, <<>>),
   LogBody(ADDR_BAD, "TOKEN", <<>>, <<>>)}

\* the upsert with created_at overwritten on conflict
UpsertTrendingReplacing(table, body, t) ==
  InsertRow(table, ToLowerCase(body.address),
            [asset_type |-> body.assetType,
             symbol |-> OrElse(body.symbol, NULL),
             name |-> OrElse(body.name, NULL),
             search_count |-> IF ToLowerCase(body.address) \in DOMAIN table
                              THEN table[ToLowerCase(body.address)].search_count + 1
                              ELSE 1,
             created_at |-> t,
             updated_at |-> t])

\* INSERT INTO trending_searches ... ON CONFLICT (address) DO UPDATE SET ...
UpsertTrending(table, body, t) ==
  LET a == ToLowerCase(body.address)
      sy == OrElse(body.symbol, NULL)
      nm == OrElse(body.name, NULL)
  IN  IF a \in DOMAIN table
      THEN [table EXCEPT ![a] =
              [@ EXCEPT !.search_count = @ + 1,
                        !.updated_at = t,
                        \* COALESCE(EXCLUDED.symbol, ${body.symbol || null})
                        !.symbol = Coalesce(sy, sy),
                        !.name = Coalesce(nm, nm)]]
      ELSE InsertRow(table, a,
                     [asset_type |-> body.assetType, symbol |-> sy, name |-> nm,
                      search_count |-> 1, created_at |-> t, updated_at |-> t])

\* a single-statement handler served body and answered r
Served(body, r) ==
  /\ lastReq' = body
  /\ lastResp' = r
  /\ nreq' = nreq + 1

PostLog ==
  /\ nreq < MaxRequests
  /\ \E body \in LogBodies :
       IF \/ body.address = <<>>
          \/ body.assetType \notin {"TOKEN", "NFT"}
          \/ ~IsMixedAddress(body.address)
       THEN /\ Served(body, [status |-> 400, success |-> FALSE, logged |-> FALSE])
            /\ UNCHANGED <<trending_searches, logCalls>>
       ELSE IF storeUp
       THEN /\ trending_searches' = UpsertTrending(trending_searches, body, now)
            /\ logCalls' = [logCalls EXCEPT ![ToLowerCase(body.address)] = Append(@, now)]
            /\ Served(body, [status |-> 200, success |-> TRUE, logged |-> TRUE])
       ELSE \* the database error is logged and the request still succeeds
            /\ Served(body, [status |-> 200, success |-> TRUE, logged |-> TRUE])
            /\ UNCHANGED <<trending_searches, logCalls>>
  /\ UNCHANGED <<dexVars, alertVars, cache, token_popularity, trendingSeen, eventVars, envVars, learnedVars, procVars>>

(***************************************************************************)
(* GET /api/trending                                                       *)
(***************************************************************************)
\* max-age=300 of the Cache-Control header, in seconds
TRENDING_MAX_AGE == 300

\* searchParams: type, limit (given or not) and cache
TrendingQuery(ty, given, n, c) ==
  [kind |-> "trending", type |-> ty, limitGiven |-> given, limit |-> n, cache |-> c]

TrendingQueries ==
  {TrendingQuery("", FALSE, 0, ""),
   TrendingQuery("token", FALSE, 0, "false"),
   TrendingQuery("NFT", TRUE, 1, ""),
   TrendingQuery("ALL", TRUE, 0 - 1, ""),
   TrendingQuery("all", TRUE, 101, ""),
   TrendingQuery("COIN", FALSE, 0, "")}

\* (searchParams.get('type') || 'ALL').toUpperCase()
TypeParam(q) ==
  CASE q.type = "" -> "ALL"
    [] q.type = "token" -> "TOKEN"
    [] q.type = "nft" -> "NFT"
    [] q.type = "all" -> "ALL"
    [] OTHER -> q.type

\* Math.min(parseInt(searchParams.get('limit') || '20', 10), 100)
LimitParam(q) == Min(IF q.limitGiven THEN q.limit ELSE 20, 100)

\* the SELECT with ORDER BY search_count DESC alone
SelectTrendingUntied(table, type, limit) ==
  LET S == {a \in DOMAIN table : type = "ALL" \/ table[a].asset_type = type}
  IN  {SubSeq(o, 1, Min(limit, Len(o))) :
         o \in {x \in [1..Cardinality(S) -> S] :
                  /\ \A i, j \in 1..Cardinality(S) :
                       i < j => /\ x[i] # x[j]
                                /\ table[x[i]].search_count >= table[x[j]].search_count}}

\* ... [WHERE asset_type = type] ORDER BY search_count DESC, updated_at DESC LIMIT limit:
\* every order of the rows the ORDER BY allows, cut to limit rows
SelectTrending(table, type, limit) ==
  LET S == {a \in DOMAIN table : type = "ALL" \/ table[a].asset_type = type}
      Precedes(a, b) ==
        \/ table[a].search_count > table[b].search_count
        \/ /\ table[a].search_count = table[b].search_count
           /\ table[a].updated_at >= table[b].updated_at
  IN  {SubSeq(o, 1, Min(limit, Len(o))) :
         o \in {x \in [1..Cardinality(S) -> S] :
                  /\ \A i, j \in 1..Cardinality(S) : i < j => x[i] # x[j] /\ Precedes(x[i], x[j])}}

\* results.map((row, index) => ({...}))
AssetsOf(table, o) ==
  [i \in 1..Len(o) |->
     [address |-> o[i],
      symbol |-> Coalesce(table[o[i]].symbol, <<"T", "O", "K", "E", "N">>),
      name |-> Coalesce(table[o[i]].name, <<"T", "o", "k", "e", "n">>),
      type |-> table[o[i]].asset_type,
      velocityScore |-> table[o[i]].search_count,
      totalSearches |-> table[o[i]].search_count,
      recentSearches |-> table[o[i]].search_count,
      previousSearches |-> 0,
      rank |-> i]]

\* the response of a read: what GET /api/trending answers for query q
TrendingResponse(q, st, as, c) ==
  [status |-> st, type |-> TypeParam(q), limit |-> LimitParam(q), cache |-> q.cache,
   assets |-> as, cached |-> c, at |-> now]

\* a failed query answered as an error
TrendingError(q) == TrendingResponse(q, 500, <<>>, FALSE)

\* the catch branch: an empty list, cached: false, status 200
TrendingFallback(q) == TrendingResponse(q, 200, <<>>, FALSE)

GetTrending ==
  /\ nreq < MaxRequests
  /\ \E q \in TrendingQueries :
       \E r \in (IF TypeParam(q) \notin {"TOKEN", "NFT", "ALL"}
                 THEN {TrendingResponse(q, 400, <<>>, FALSE)}
                 ELSE IF ~storeUp \/ LimitParam(q) < 0
                 THEN {TrendingFallback(q)}
                 ELSE {TrendingResponse(q, 200, AssetsOf(trending_searches, o), q.cache # "false") :
                         o \in SelectTrending(trending_searches, TypeParam(q), LimitParam(q))}) :
         /\ Served(q, r)
         /\ trendingSeen' = r
  /\ UNCHANGED <<dexVars, alertVars, cache, aggVars, eventVars, envVars, learnedVars, procVars>>

(***************************************************************************)
(* POST /api/trending/popularity                                           *)
(***************************************************************************)
\* SQL NULL in a timestamp column
NO_TIME == 0 - 1

\* SQL NULL in the column ctr DECIMAL(5,2), whose values are kept in hundredths
NO_NUMBER == 0 - 1

PopularityBody(a, appeared, clicked, isNum, ts) ==
  [kind |-> "popularity", tokenAddress |-> a, appearedInResults |-> appeared,
   wasClicked |-> clicked, timestampIsNumber |-> isNum, timestamp |-> ts]

PopularityBodies ==
  {PopularityBody(ADDR_A, ap, cl, TRUE, ts) :
     ap \in BOOLEAN, cl \in BOOLEAN, ts \in {1000, 2000}}
    \cup {PopularityBody(ADDR_A_UPPER, TRUE, TRUE, TRUE, 1000),
          PopularityBody(<<>>, TRUE, TRUE, TRUE, 1000),
          PopularityBody(ADDR_A, TRUE, TRUE, FALSE, 0),
          PopularityBody(ADDR_BAD, TRUE, TRUE, TRUE, 1000)}

\* the upsert as an insert that leaves an existing row alone
UpsertPopularityOnce(table, body, t) ==
  IF body.tokenAddress \in DOMAIN table
  THEN table
  ELSE InsertRow(table, body.tokenAddress,
                 [search_count |-> IF body.appearedInResults THEN 1 ELSE 0,
                  click_count |-> IF body.wasClicked THEN 1 ELSE 0, ctr |-> NO_NUMBER,
                  last_searched |-> body.timestamp, last_clicked |-> body.timestamp,
                  updated_at |-> t])

\* INSERT INTO token_popularity ... ON CONFLICT (token_address) DO UPDATE SET ...;
\* to_timestamp(ms / 1000.0) is kept in milliseconds
UpsertPopularity(table, body, t) ==
  LET a == body.tokenAddress
      s == IF body.appearedInResults THEN 1 ELSE 0
      c == IF body.wasClicked THEN 1 ELSE 0
  IN  IF a \in DOMAIN table
      THEN [table EXCEPT ![a] =
              [@ EXCEPT !.search_count = @ + s,
                        !.click_count = @ + c,
                        !.last_searched = IF body.appearedInResults THEN body.timestamp ELSE @,
                        !.last_clicked = IF body.wasClicked THEN body.timestamp ELSE @,
                        !.updated_at = t]]
      ELSE InsertRow(table, a,
                     \* ctr is not among the columns of the INSERT
                     [search_count |-> s, click_count |-> c, ctr |-> NO_NUMBER,
                      last_searched |-> body.timestamp, last_clicked |-> body.timestamp,
                      updated_at |-> t])

PostPopularity ==
  /\ nreq < MaxRequests
  /\ \E body \in PopularityBodies :
       IF \/ body.tokenAddress = <<>>
          \/ ~body.timestampIsNumber
          \/ ~IsAddressIgnoreCase(body.tokenAddress)
       THEN /\ Served(body, [status |-> 400, updated |-> FALSE])
            /\ UNCHANGED token_popularity
       ELSE IF storeUp
       THEN /\ token_popularity' = UpsertPopularity(token_popularity, body, now)
            /\ Served(body, [status |-> 200, updated |-> TRUE])
       ELSE /\ Served(body, [status |-> 500, updated |-> FALSE])
            /\ UNCHANGED token_popularity
  /\ UNCHANGED <<dexVars, alertVars, cache, trending_searches, logCalls, trendingSeen, eventVars, envVars, learnedVars, procVars>>

(***************************************************************************)
(* GET /api/trending/popularity                                            *)
(***************************************************************************)
\* addresses.length > 100
ADDRESSES_MAX == 100

\* searchParams.getAll("addresses[]"): none, one token in either spelling,
\* two tokens, a text that is no address
AddressLists ==
  {[kind |-> "popularity_get", addresses |-> l] :
     l \in {<<>>, <<ADDR_A>>, <<ADDR_A_UPPER>>, <<ADDR_A, ADDR_B>>, <<ADDR_BAD>>}}

\* one entry of the response; COALESCE(ctr, 0) and parseFloat give 0 for NULL
PopularityData(a, row) ==
  [tokenAddress |-> a,
   searchCount |-> row.search_count,
   clickCount |-> row.click_count,
   ctr |-> IF row.ctr = NO_NUMBER THEN 0 ELSE row.ctr,
   lastSearched |-> row.last_searched,
   lastClicked |-> row.last_clicked]

GetPopularity ==
  /\ nreq < MaxRequests
  /\ \E q \in AddressLists :
       LET asked == {q.addresses[i] : i \in 1..Len(q.addresses)}
           found == asked \cap DOMAIN token_popularity
           keys == {ToLowerCase(a) : a \in found}
       IN  IF Len(q.addresses) = 0 \/ Len(q.addresses) > ADDRESSES_MAX
           THEN Served(q, [status |-> 400])
           ELSE IF \E a \in asked : ~IsAddressIgnoreCase(a)
           THEN Served(q, [status |-> 400])
           ELSE IF ~storeUp
           THEN Served(q, [status |-> 500])
           ELSE \* popularity[row.token_address.toLowerCase()] = ...: of two rows
                \* with one key the one the result lists last is kept
                \E pick \in [keys -> found] :
                  /\ \A k \in keys : ToLowerCase(pick[k]) = k
                  /\ Served(q, [status |-> 200,
                                popularity |-> [k \in keys |->
                                  PopularityData(pick[k], token_popularity[pick[k]])]])
  /\ UNCHANGED <<dexVars, alertVars, cache, trendingSeen, aggVars, eventVars, envVars, learnedVars, procVars>>

(***************************************************************************)
(* POST /api/analytics/search, POST /api/analytics/click                   *)
(***************************************************************************)
\* query.length < 2 || query.length > 500
QUERY_MIN == 2

QUERY_MAX == 500

\* body.results.length > 100
RESULTS_MAX == 100

\* body.resultRank > 99
RANK_MAX == 99

SESSION == Rep("a", SESSION_HEX_LEN)

DOGS == <<"d", "o", "g", "s">>

\* INTERVAL '30 days', in seconds
THIRTY_DAYS == 2592000

\* the bodies' timestamps are written in seconds, the unit to_timestamp(ms / 1000.0)
\* turns them into; this one is more than thirty days before the clock starts
LONG_AGO == 0 - THIRTY_DAYS - 1

\* timestamp 0 stands for a body without one; results that are no array
\* (or are missing) have resultsIsArray FALSE
SearchBody(s, q, isArr, rs, ts) ==
  [kind |-> "search", sessionId |-> s, query |-> q, resultsIsArray |-> isArr,
   results |-> rs, resultCount |-> Len(rs), timestamp |-> ts]

SearchBodies ==
  {SearchBody(SESSION, q, TRUE, <<ADDR_A>>, 1) :
     q \in {DOGE, <<"d">>, <<>>, Rep("q", QUERY_MAX), Rep("q", QUERY_MAX + 1)}}
    \cup {SearchBody(s, DOGE, TRUE, <<ADDR_A>>, 1) :
            s \in {<<>>, Rep("a", SESSION_HEX_LEN - 1), Rep("A", SESSION_HEX_LEN)}}
    \cup {SearchBody(SESSION, DOGE, TRUE, rs, 1) :
            rs \in {<<ADDR_A, ADDR_BAD>>, <<ADDR_A_UPPER>>,
                    Rep(ADDR_A, RESULTS_MAX), Rep(ADDR_A, RESULTS_MAX + 1)}}
    \cup {SearchBody(SESSION, DOGE, FALSE, <<>>, 1),
          SearchBody(SESSION, DOGE, TRUE, <<ADDR_A>>, 0)}

\* INSERT INTO search_events (...) VALUES (...)
SearchRow(body) ==
  [session_id |-> body.sessionId, query |-> body.query, results |-> body.results,
   result_count |-> body.resultCount, timestamp |-> body.timestamp]

PostSearch ==
  /\ nreq < MaxRequests
  /\ \E body \in SearchBodies :
       IF \/ body.sessionId = <<>> \/ body.query = <<>> \/ body.timestamp = 0
          \/ ~IsSessionId(body.sessionId)
          \/ Len(body.query) < QUERY_MIN \/ Len(body.query) > QUERY_MAX
          \/ ~body.resultsIsArray \/ Len(body.results) > RESULTS_MAX
          \/ \E i \in 1..Len(body.results) : ~IsAddressIgnoreCase(body.results[i])
       THEN /\ Served(body, [status |-> 400, saved |-> FALSE])
            /\ UNCHANGED search_events
       ELSE IF storeUp
       THEN /\ search_events' = search_events (+) SetToBag({SearchRow(body)})
            /\ Served(body, [status |-> 200, saved |-> TRUE])
       ELSE /\ Served(body, [status |-> 500, saved |-> FALSE])
            /\ UNCHANGED search_events
  /\ UNCHANGED <<dexVars, alertVars, cache, click_events, token_search_index, trendingSeen, aggVars, envVars,
                 learnedVars, procVars>>

\* resultRank is counted in halves, so 3 is 1.5; rankIsNumber FALSE is a missing
\* rank or one that is no number; timestamp 0 stands for a body without one
ClickBody(s, q, a, isNum, halves, ts) ==
  [kind |-> "click", sessionId |-> s, query |-> q, clickedAddress |-> a,
   rankIsNumber |-> isNum, rankHalves |-> halves, timestamp |-> ts]

ClickBodies ==
  {ClickBody(SESSION, DOGE, a, TRUE, 0, 1) : a \in {ADDR_A, ADDR_B, ADDR_A_UPPER, ADDR_BAD, <<>>}}
    \cup {ClickBody(SESSION, DOGE, ADDR_A, TRUE, h, 1) :
            h \in {3, 0 - 2, 2 * RANK_MAX, 2 * RANK_MAX + 2, 300}}
    \cup {ClickBody(SESSION, q, ADDR_A, TRUE, 0, 1) : q \in {<<"d">>, Rep("q", QUERY_MAX + 1)}}
    \cup {ClickBody(Rep("a", SESSION_HEX_LEN + 1), DOGE, ADDR_A, TRUE, 0, 1),
          ClickBody(SESSION, DOGE, ADDR_A, FALSE, 0, 1),
          ClickBody(SESSION, DOGE, ADDR_A, TRUE, 0, 0),
          ClickBody(SESSION, DOGE, ADDR_B, TRUE, 0, LONG_AGO)}

\* INSERT INTO click_events (...) VALUES (...); a body without a timestamp
\* leaves the column NULL
ClickRow(body) ==
  [session_id |-> body.sessionId, query |-> body.query,
   clicked_address |-> body.clickedAddress, result_rank |-> body.rankHalves \div 2,
   timestamp |-> IF body.timestamp = 0 THEN NO_TIME ELSE body.timestamp]

PostClick ==
  /\ nreq < MaxRequests
  /\ \E body \in ClickBodies :
       IF \/ body.sessionId = <<>> \/ body.query = <<>> \/ body.clickedAddress = <<>>
          \/ ~IsSessionId(body.sessionId)
          \/ Len(body.query) < QUERY_MIN \/ Len(body.query) > QUERY_MAX
          \/ ~IsAddressIgnoreCase(body.clickedAddress)
          \/ ~body.rankIsNumber \/ body.rankHalves < 0 \/ body.rankHalves > 2 * RANK_MAX
       THEN /\ Served(body, [status |-> 400, saved |-> FALSE])
            /\ UNCHANGED click_events
       ELSE IF storeUp /\ body.rankHalves % 2 = 0
       THEN /\ click_events' = click_events (+) SetToBag({ClickRow(body)})
            /\ Served(body, [status |-> 200, saved |-> TRUE])
       ELSE \* the store is down, or result_rank INTEGER refuses the value
            /\ Served(body, [status |-> 500, saved |-> FALSE])
            /\ UNCHANGED click_events
  /\ UNCHANGED <<dexVars, alertVars, cache, search_events, token_search_index, trendingSeen, aggVars, envVars,
                 learnedVars, procVars>>

(***************************************************************************)
(* GET /api/recommendations/peers                                          *)
(***************************************************************************)
\* similarity(query, q) > 0.3, in tenths
SIMILARITY_TENTHS == 3

\* similar_queries ... LIMIT 100
SIMILAR_MAX == 100

\* limit > 20
PEERS_LIMIT_MAX == 20

\* ct.frequency > 10
POPULAR_MIN == 10

UNKNOWN_TOKEN == <<"U", "n", "k", "n", "o", "w", "n", " ", "T", "o", "k", "e", "n">>

UNKNOWN == <<"U", "N", "K", "N", "O", "W", "N">>

\* the trigrams pg_trgm takes from a text of one word: lower case, two blanks
\* before it and one after
Trigrams(s) ==
  LET p == <<" ", " ">> \o ToLowerCase(s) \o <<" ">>
  IN  {SubSeq(p, i, i + 2) : i \in 1..(Len(p) - 2)}

\* query % q AND similarity(query, q) > 0.3: shared trigrams over all trigrams
Similar(a, b) ==
  10 * Cardinality(Trigrams(a) \cap Trigrams(b))
    > SIMILARITY_TENTHS * Cardinality(Trigrams(a) \cup Trigrams(b))

\* timestamp > NOW() - INTERVAL '30 days'; a NULL timestamp does not pass
InWindow(ts, t) == ts # NO_TIME /\ ts > t - THIRTY_DAYS

\* a query string with its parameters; limitGiven FALSE is a missing limit,
\* type "" a missing type; limit is the text of the parameter
PeersQuery(q, ty, given, n) ==
  [kind |-> "peers", query |-> q, type |-> ty, limitGiven |-> given, limit |-> n]

PeersQueries ==
  {PeersQuery(q, "", FALSE, <<>>) : q \in {DOGE, DOGS, <<"c", "a", "t">>, <<"d">>, <<>>}}
    \cup {PeersQuery(DOGE, ty, TRUE, <<"1">>) : ty \in {"TOKEN", "NFT", "COIN"}}
    \cup {PeersQuery(DOGE, "NFT", TRUE, n) :
             n \in {<<"0">>, <<"2", "0">>, <<"2", "1">>, <<"1", ".", "5">>, <<"a", "b", "c">>}}

\* a JavaScript number: NaN, or the integer n
NaN == [nan |-> TRUE, n |-> 0]

Number(n) == [nan |-> FALSE, n |-> n]

\* parseInt(text, 10): the longest prefix of decimal digits, NaN without one
ParseInt(text) ==
  LET Digits == <<"0", "1", "2", "3", "4", "5", "6", "7", "8", "9">>
      DigitValue(c) == (CHOOSE i \in 1..10 : Digits[i] = c) - 1
      IsDigit(c) == \E i \in 1..10 : Digits[i] = c
      k == CHOOSE j \in 0..Len(text) :
             /\ \A i \in 1..j : IsDigit(text[i])
             /\ j < Len(text) => ~IsDigit(text[j + 1])
      Value[i \in 0..Len(text)] ==
        IF i = 0 THEN 0 ELSE 10 * Value[i - 1] + DigitValue(text[i])
  IN  IF k = 0 THEN NaN ELSE Number(Value[k])

\* x < y and x > y of JavaScript: false when an operand is NaN
Less(x, y) == ~x.nan /\ ~y.nan /\ x.n < y.n

\* WITH similar_queries AS (SELECT DISTINCT query ... LIMIT 100): every set of
\* rows the LIMIT may keep
SimilarQueries(q) ==
  LET Q == {r.query : r \in {x \in BagToSet(search_events) :
                               Similar(x.query, q) /\ InWindow(x.timestamp, now)}}
  IN  {S \in SUBSET Q : Cardinality(S) = Min(SIMILAR_MAX, Cardinality(Q))}

\* clicked_tokens before its ORDER BY: clicked_address -> COUNT(*)
Frequency(S) ==
  LET rows == {r \in BagToSet(click_events) : r.query \in S /\ InWindow(r.timestamp, now)}
  IN  [a \in {r.clicked_address : r \in rows} |->
         BagCardinality([r \in {x \in rows : x.clicked_address = a} |->
                           CopiesIn(r, click_events)])]

\* ORDER BY frequency DESC LIMIT limit: every order the ORDER BY allows, cut
\* to limit rows
TopClicked(freq, limit) ==
  LET n == Cardinality(DOMAIN freq)
  IN  {SubSeq(o, 1, Min(limit, n)) :
         o \in {x \in [1..n -> DOMAIN freq] :
                  \A i, j \in 1..n : i < j => x[i] # x[j] /\ freq[x[i]] >= freq[x[j]]}}

\* the sum over the returned rows only
SumReturned(freq, top, kept) == BagCardinality([a \in {kept[i] : i \in 1..Len(kept)} |-> freq[a]])

\* (SELECT SUM(frequency) FROM clicked_tokens)
SumFrequency(freq, top, kept) == BagCardinality([a \in {top[i] : i \in 1..Len(top)} |-> freq[a]])

\* SELECT ... FROM clicked_tokens ct LEFT JOIN token_search_index tsi
\*   ON tsi.address = ct.clicked_address WHERE tsi.type = type
\*   ORDER BY ct.frequency DESC; a score is the pair <<frequency, sum>>
Recommendations(freq, top, type) ==
  LET Kept(a) == a \in DOMAIN token_search_index /\ token_search_index[a].type = type
      kept == SelectSeq(top, Kept)
  IN  [i \in 1..Len(kept) |->
         [address |-> kept[i],
          name |-> Coalesce(token_search_index[kept[i]].name, UNKNOWN_TOKEN),
          symbol |-> Coalesce(token_search_index[kept[i]].symbol, UNKNOWN),
          score |-> <<freq[kept[i]], SumFrequency(freq, top, kept)>>,
          reason |-> IF freq[kept[i]] > POPULAR_MIN THEN "popular" ELSE "frequent"]]

GetPeers ==
  /\ nreq < MaxRequests
  /\ \E q \in PeersQueries :
       LET type == IF q.type = "" THEN "TOKEN" ELSE q.type
           parsed == ParseInt(IF q.limitGiven THEN q.limit ELSE <<"5">>)
           limit == parsed.n
       IN  \E r \in (IF \/ Len(q.query) < QUERY_MIN \/ Len(q.query) > QUERY_MAX
                        \/ Less(parsed, Number(1)) \/ Less(Number(PEERS_LIMIT_MAX), parsed)
                        \/ type \notin {"TOKEN", "NFT"}
                     THEN {[status |-> 400]}
                     ELSE IF ~storeUp \/ parsed.nan
                     THEN \* no answer, or LIMIT 'NaN' refused by the store
                          {[status |-> 500]}
                     ELSE UNION {{[status |-> 200, type |-> type, limit |-> limit,
                                   recommendations |->
                                     Recommendations(Frequency(S), top, type)] :
                                    top \in TopClicked(Frequency(S), limit)} :
                                   S \in SimilarQueries(q.query)}) :
             Served(q, r)
  /\ UNCHANGED <<dexVars, alertVars, cache, trendingSeen, aggVars, eventVars, envVars, learnedVars, procVars>>

\* token_search_index is filled outside the routes: a token is indexed with
\* its type and texts, or with its type alone
IndexToken ==
  /\ \E a \in {ADDR_A, ADDR_B} :
       /\ a \notin DOMAIN token_search_index
       /\ \E row \in {[type |-> "TOKEN", name |-> DOGE, symbol |-> DOGE],
                      [type |-> "NFT", name |-> NULL, symbol |-> NULL]} :
            token_search_index' = (a :> row) @@ token_search_index
  /\ UNCHANGED <<dexVars, alertVars, cache, search_events, click_events, callVars, aggVars, envVars, learnedVars, procVars>>

(***************************************************************************)
(* POST /api/alerts/trigger and POST /api/alerts?action=trigger            *)
(***************************************************************************)
ALERT_ID == <<"a", "1">>

TriggerBody(route, action, id, wallet, token) ==
  [kind |-> "trigger", route |-> route, action |-> action, alertId |-> id,
   alertName |-> DOGE, walletAddress |-> wallet, tokenAddress |-> token,
   tokenSymbol |-> <<>>, transactionCount |-> 1]

\* one alert of one wallet without and with a token, through both routes, and
\* one body for each validation failure
TriggerBodies ==
  {TriggerBody("trigger", "", ALERT_ID, ADDR_B, <<>>),
   TriggerBody("trigger", "", ALERT_ID, ADDR_B, ADDR_A_MIXED),
   TriggerBody("alerts", "trigger", ALERT_ID, ADDR_B, <<>>),
   TriggerBody("alerts", "", ALERT_ID, ADDR_B, <<>>),
   TriggerBody("trigger", "", <<>>, ADDR_B, <<>>),
   TriggerBody("trigger", "", ALERT_ID, ADDR_BAD, <<>>),
   TriggerBody("trigger", "", ALERT_ID, ADDR_B, ADDR_BAD)}

\* the row INSERT INTO triggered_alerts adds at time t
AlertRow(body, t) ==
  [alert_id |-> body.alertId,
   alert_name |-> body.alertName,
   wallet_address |-> ToLowerCase(body.walletAddress),
   token_address |-> OrElse(ToLowerCase(body.tokenAddress), NULL),
   token_symbol |-> OrElse(body.tokenSymbol, NULL),
   transaction_count |-> body.transactionCount,
   triggered_at |-> t]

\* UNIQUE (alert_id, wallet_address, token_address, triggered_at): two rows
\* conflict when they agree on the four columns and none of them is NULL
unique_alert_trigger(table, row) ==
  \E r \in BagToSet(table) :
    /\ r.alert_id = row.alert_id
    /\ r.wallet_address = row.wallet_address
    /\ r.token_address # NULL
    /\ r.token_address = row.token_address
    /\ r.triggered_at = row.triggered_at

\* a trigger function that leaves the counter alone
KeepAlertCounter(counters) == counters

\* UPDATE alert_counters SET total_alerts = total_alerts + 1 WHERE id = 1
increment_alert_counter_on_trigger(counters) ==
  [counters EXCEPT !.total_alerts = @ + 1]

\* a handler of an instance takes the next request
Accepts(p) ==
  /\ pc[p] = "idle"
  /\ nreq < MaxWrites
  /\ nreq' = nreq + 1
  /\ UNCHANGED <<lastReq, lastResp, trendingSeen>>

\* request.json() and the validations
TrStart(p) ==
  /\ Accepts(p)
  /\ \E body \in TriggerBodies :
       /\ req' = [req EXCEPT ![p] = body]
       /\ IF body.route = "alerts" /\ body.action # "trigger"
          THEN Answer(p, [status |-> 400, logged |-> FALSE, hasCount |-> FALSE, newCount |-> 0])
          ELSE IF body.alertId = <<>> \/ body.alertName = <<>> \/ body.walletAddress = <<>>
          THEN Answer(p, [status |-> 400, logged |-> FALSE, hasCount |-> FALSE, newCount |-> 0])
          ELSE IF ~IsMixedAddress(body.walletAddress)
          THEN Answer(p, [status |-> 400, logged |-> FALSE, hasCount |-> FALSE, newCount |-> 0])
          ELSE IF body.tokenAddress # <<>> /\ ~IsMixedAddress(body.tokenAddress)
          THEN Answer(p, [status |-> 400, logged |-> FALSE, hasCount |-> FALSE, newCount |-> 0])
          ELSE /\ pc' = [pc EXCEPT ![p] = "tr_insert"]
               /\ resp' = [resp EXCEPT ![p] = NoResp]
  /\ UNCHANGED <<dexVars, alertVars, cache, loc, learnedVars, envVars, aggVars, eventVars>>

\* INSERT INTO triggered_alerts ... ON CONFLICT (alert_id, wallet_address,
\* token_address, triggered_at) DO NOTHING, with the AFTER INSERT trigger in
\* the same statement; a database error is logged and answered logged: false
TrInsert(p) ==
  /\ pc[p] = "tr_insert"
  /\ IF ~storeUp \/ alert_schema # "phase3"
     THEN \* no answer, or no unique constraint matching the ON CONFLICT columns
          /\ Answer(p, [status |-> 200, logged |-> FALSE, hasCount |-> FALSE, newCount |-> 0])
          /\ UNCHANGED <<triggered_alerts, alert_counters>>
     ELSE /\ IF unique_alert_trigger(triggered_alerts, AlertRow(req[p], now))
             THEN UNCHANGED <<triggered_alerts, alert_counters>>
             ELSE /\ triggered_alerts' = triggered_alerts (+) SetToBag({AlertRow(req[p], now)})
                  /\ alert_counters' = increment_alert_counter_on_trigger(alert_counters)
          /\ pc' = [pc EXCEPT ![p] = "tr_count"]
          /\ resp' = resp
  /\ UNCHANGED <<dexVars, alert_schema, cache, req, loc, learnedVars, envVars, aggVars, eventVars, callVars>>

\* SELECT total_alerts FROM alert_counters WHERE id = 1 and the response;
\* logged is already true when this query fails
TrCount(p) ==
  /\ pc[p] = "tr_count"
  /\ IF storeUp
     THEN Answer(p, [status |-> 200, logged |-> TRUE, hasCount |-> TRUE,
                     newCount |-> alert_counters.total_alerts])
     ELSE Answer(p, [status |-> 200, logged |-> TRUE, hasCount |-> FALSE, newCount |-> 0])
  /\ UNCHANGED <<dexVars, alertVars, cache, req, loc, learnedVars, envVars, aggVars, eventVars, callVars>>

(***************************************************************************)
(* The in-memory caches of GET /api/stats and GET /api/network-health      *)
(***************************************************************************)
Routes == {"stats", "network-health"}

\* let cache = null
NoEntry == [empty |-> TRUE]

\* const CACHE_TTL of the two routes, in seconds
STATS_TTL == 300

NETWORK_TTL == 10

CACHE_TTL(route) == IF route = "stats" THEN STATS_TTL ELSE NETWORK_TTL

\* searchParams: cache
CacheQueries ==
  {[kind |-> "cached", route |-> "stats", cache |-> ""],
   [kind |-> "cached", route |-> "stats", cache |-> "false"],
   [kind |-> "cached", route |-> "network-health", cache |-> ""]}

\* an entry that is still served at the age of exactly one TTL
FreshInclusive(entry, ttl, t) == entry # NoEntry /\ t - entry.timestamp <= ttl

\* cache && Date.now() - cache.timestamp < CACHE_TTL
Fresh(entry, ttl, t) == entry # NoEntry /\ t - entry.timestamp < ttl

\* SELECT COUNT(*) FROM token_interactions WHERE interaction_type = 'search'
CountSearches(table) ==
  BagCardinality([r \in {x \in BagToSet(table) : x.interaction_type = "search"} |->
                    CopiesIn(r, table)])

\* eth_getBlockByNumber('latest'): the head of the chain at time t
LatestBlock(t) == t

\* the response of a cached route; readAt is the time its values left the
\* data source
CachedResponse(data, c, stamp, readAt, t) ==
  [status |-> 200, data |-> data, cached |-> c, timestamp |-> stamp, readAt |-> readAt, at |-> t]

\* the cache check of GET; a fresh entry is answered at once
CgStart(p) ==
  /\ Accepts(p)
  /\ \E q \in CacheQueries :
       /\ req' = [req EXCEPT ![p] = q]
       /\ IF q.cache # "false" /\ Fresh(cache[q.route], CACHE_TTL(q.route), now)
          THEN Answer(p, CachedResponse(cache[q.route].data, TRUE, cache[q.route].timestamp,
                                        cache[q.route].readAt, now))
          ELSE /\ pc' = [pc EXCEPT ![p] = "cg_read"]
               /\ resp' = [resp EXCEPT ![p] = NoResp]
  /\ UNCHANGED <<dexVars, alertVars, cache, loc, learnedVars, envVars, aggVars, eventVars>>

\* the first await: the COUNT of the searches, or the fetch of the latest
\* block, which the node may refuse; a failure goes to the catch branch
CgRead(p) ==
  /\ pc[p] = "cg_read"
  /\ IF req[p].route = "stats"
     THEN IF storeUp
          THEN /\ loc' = [loc EXCEPT ![p] = [part |-> CountSearches(token_interactions),
                                             readAt |-> now]]
               /\ pc' = [pc EXCEPT ![p] = "cg_store"]
               /\ resp' = resp
          ELSE /\ Answer(p, CachedResponse([searches |-> 0, alerts |-> 0], FALSE, now, now, now))
               /\ loc' = loc
     ELSE \/ /\ loc' = [loc EXCEPT ![p] = [part |-> LatestBlock(now), readAt |-> now]]
             /\ pc' = [pc EXCEPT ![p] = "cg_store"]
             /\ resp' = resp
          \/ /\ Answer(p, CachedResponse(NULL, FALSE, now, now, now))
             /\ loc' = loc
  /\ UNCHANGED <<dexVars, alertVars, cache, req, learnedVars, envVars, aggVars, eventVars, callVars>>

\* the second await (the COUNT of the alerts, or the body of the block), then
\* cache = {data, timestamp: Date.now()} and the response
CgStore(p) ==
  /\ pc[p] = "cg_store"
  /\ IF req[p].route = "stats" /\ ~storeUp
     THEN /\ Answer(p, CachedResponse([searches |-> 0, alerts |-> 0], FALSE, now, now, now))
          /\ cache' = cache
     ELSE LET data == IF req[p].route = "stats"
                      THEN [searches |-> loc[p].part,
                            alerts |-> BagCardinality(triggered_alerts)]
                      ELSE [currentBlockNumber |-> loc[p].part]
          IN  /\ cache' = [cache EXCEPT ![req[p].route] =
                             [data |-> data, timestamp |-> now, readAt |-> loc[p].readAt]]
              /\ Answer(p, CachedResponse(data, FALSE, now, loc[p].readAt, now))
  /\ loc' = [loc EXCEPT ![p] = NoLoc]
  /\ UNCHANGED <<dexVars, alertVars, req, learnedVars, envVars, aggVars, eventVars, callVars>>

(***************************************************************************)
(* trending_assets_view                                                    *)
(***************************************************************************)
\* INTERVAL '24 hours', '48 hours' and '7 days', in seconds
HOURS_24 == 86400

HOURS_48 == 172800

DAYS_7 == 604800

\* the view with the 24-hour boundary counted in both periods
trending_assets_view_overlapping(events, t) ==
  LET live == {e \in BagToSet(events) : e.created_at > t - DAYS_7}
      Key(e) == <<e.address, e.asset_type, e.symbol, e.name>>
      Group(k) == {e \in live : Key(e) = k}
      Recent(k) == Cardinality({e \in Group(k) : e.created_at >= t - HOURS_24})
      Previous(k) == Cardinality({e \in Group(k) : /\ e.created_at <= t - HOURS_24
                                                   /\ e.created_at > t - HOURS_48})
      Row(k) == [address |-> k[1],
                 asset_type |-> k[2],
                 symbol |-> Coalesce(k[3], <<"T", "O", "K", "E", "N">>),
                 name |-> Coalesce(k[4], <<"T", "o", "k", "e", "n">>),
                 total_searches |-> Cardinality(Group(k)),
                 recent_searches |-> Recent(k),
                 previous_searches |-> Previous(k),
                 velocity_score |-> IF Previous(k) = 0
                                    THEN [num |-> 0, den |-> 1]
                                    ELSE [num |-> Recent(k) * 100, den |-> Previous(k)]]
      rows == {Row(Key(e)) : e \in live}
      Above(x, y) ==
        \/ x.velocity_score.num * y.velocity_score.den > y.velocity_score.num * x.velocity_score.den
        \/ /\ x.velocity_score.num * y.velocity_score.den = y.velocity_score.num * x.velocity_score.den
           /\ x.total_searches >= y.total_searches
  IN  {o \in [1..Cardinality(rows) -> rows] :
         \A i, j \in 1..Cardinality(rows) : i < j => o[i] # o[j] /\ Above(o[i], o[j])}

\* CREATE OR REPLACE VIEW trending_assets_view AS SELECT ... FROM search_events
\* WHERE created_at > NOW() - INTERVAL '7 days' GROUP BY address, asset_type,
\* symbol, name ORDER BY velocity_score DESC, total_searches DESC, read at
\* time t: the orders the database may return (ties are in any order).
\* velocity_score, a FLOAT, is kept as the fraction it is computed from.
trending_assets_view(events, t) ==
  LET live == {e \in BagToSet(events) : e.created_at > t - DAYS_7}
      Key(e) == <<e.address, e.asset_type, e.symbol, e.name>>
      Group(k) == {e \in live : Key(e) = k}
      Recent(k) == Cardinality({e \in Group(k) : e.created_at > t - HOURS_24})
      Previous(k) == Cardinality({e \in Group(k) : /\ e.created_at <= t - HOURS_24
                                                   /\ e.created_at > t - HOURS_48})
      Row(k) == [address |-> k[1],
                 asset_type |-> k[2],
                 symbol |-> Coalesce(k[3], <<"T", "O", "K", "E", "N">>),
                 name |-> Coalesce(k[4], <<"T", "o", "k", "e", "n">>),
                 total_searches |-> Cardinality(Group(k)),
                 recent_searches |-> Recent(k),
                 previous_searches |-> Previous(k),
                 velocity_score |-> IF Previous(k) = 0
                                    THEN [num |-> 0, den |-> 1]
                                    ELSE [num |-> Recent(k) * 100, den |-> Previous(k)]]
      rows == {Row(Key(e)) : e \in live}
      Above(x, y) ==
        \/ x.velocity_score.num * y.velocity_score.den > y.velocity_score.num * x.velocity_score.den
        \/ /\ x.velocity_score.num * y.velocity_score.den = y.velocity_score.num * x.velocity_score.den
           /\ x.total_searches >= y.total_searches
  IN  {o \in [1..Cardinality(rows) -> rows] :
         \A i, j \in 1..Cardinality(rows) : i < j => o[i] # o[j] /\ Above(o[i], o[j])}

\* SELECT * FROM trending_assets_view
SelectTrendingAssets ==
  /\ nreq < MaxRequests
  /\ \E rows \in trending_assets_view(search_events, now) :
       Served([kind |-> "view"], [status |-> 200, rows |-> rows])
  /\ UNCHANGED <<dexVars, alertVars, cache, trendingSeen, aggVars, eventVars, envVars, learnedVars, procVars>>

(***************************************************************************)
(* POST and GET /api/dex-analytics/sync                                    *)
(***************************************************************************)
\* const MIN_SYNC_INTERVAL = 5 * 60 * 1000, in seconds
MIN_SYNC_INTERVAL == 300

\* let lastSyncTime = 0: the instant Date.now() counts from, long before
\* the run
EPOCH == 0 - THIRTY_DAYS

KNOWN_FACTORIES == <<"DogeSwap", "QuickSwap">>

\* tvl_usd of the sample pool
SAMPLE_TVL == 300000

\* syncFactoryPools: the INSERT INTO dex_pools ... ON CONFLICT (pool_address)
\* DO UPDATE of the one sample pool at time t
syncFactoryPools(table, factoryName, t) ==
  LET a == "0x6ecCab422D763aC031210895C81787E87B91425i"
  IN  IF a \in DOMAIN table
      THEN [table EXCEPT ![a] = [@ EXCEPT !.tvl_usd = SAMPLE_TVL, !.updated_at = t]]
      ELSE InsertRow(table, a, [factory_name |-> factoryName, tvl_usd |-> SAMPLE_TVL,
                                created_at |-> t, updated_at |-> t])

\* force, const now = Date.now() and the rate limit; nothing is awaited
SyStart(p) ==
  /\ Accepts(p)
  /\ \E force \in BOOLEAN :
       /\ req' = [req EXCEPT ![p] = [kind |-> "sync", force |-> force]]
       /\ IF ~force /\ now - lastSyncTime < MIN_SYNC_INTERVAL
          THEN /\ Answer(p, [status |-> 429, syncedCount |-> 0])
               /\ loc' = loc
          ELSE /\ pc' = [pc EXCEPT ![p] = "sy_insert"]
               /\ resp' = [resp EXCEPT ![p] = NoResp]
               /\ loc' = [loc EXCEPT ![p] = [i |-> 1, totalSynced |-> 0, now |-> now]]
  /\ UNCHANGED <<dexVars, alertVars, cache, learnedVars, envVars, aggVars, eventVars>>

\* one await syncFactoryPools of the loop, whose failure is logged and
\* counts 0; after the last one lastSyncTime = now and the response
SyInsert(p) ==
  /\ pc[p] = "sy_insert"
  /\ LET l == loc[p]
         total == l.totalSynced + (IF storeUp THEN 1 ELSE 0)
     IN  /\ dex_pools' = IF storeUp
                         THEN syncFactoryPools(dex_pools, KNOWN_FACTORIES[l.i], now)
                         ELSE dex_pools
         /\ IF l.i < Len(KNOWN_FACTORIES)
            THEN /\ loc' = [loc EXCEPT ![p] = [l EXCEPT !.i = @ + 1, !.totalSynced = total]]
                 /\ UNCHANGED <<pc, resp, lastSyncTime>>
            ELSE /\ lastSyncTime' = l.now
                 /\ Answer(p, [status |-> 200, syncedCount |-> total])
                 /\ loc' = [loc EXCEPT ![p] = NoLoc]
  /\ UNCHANGED <<dexCache, alertVars, cache, req, learnedVars, envVars, aggVars, eventVars, callVars>>

\* GET /api/dex-analytics/sync
GetSync ==
  /\ nreq < MaxRequests
  /\ Served([kind |-> "sync_status"],
            [status |-> 200,
             lastSyncTime |-> IF lastSyncTime > EPOCH THEN lastSyncTime ELSE NO_TIME,
             canSync |-> now - lastSyncTime >= MIN_SYNC_INTERVAL])
  /\ UNCHANGED <<dexVars, alertVars, cache, trendingSeen, aggVars, eventVars, envVars, learnedVars, procVars>>

(***************************************************************************)
(* GET /api/dex-analytics, types volume and tvl                            *)
(***************************************************************************)
\* const CACHE_TTL = 300000, in seconds
DEX_CACHE_TTL == 300

\* Math.min(parseInt(limit || '20', 10), 100)
DEX_LIMIT_MAX == 100

\* fetchTopPoolsByVolumeFromGecko: [] when the fetch fails; otherwise the
\* pools with volume, by volume descending (the sort is stable), cut by
\* slice(0, limit), which is empty for NaN
fetchTopPoolsByVolumeFromGecko(reply, limit) ==
  IF ~reply.ok \/ limit.nan THEN <<>>
  ELSE LET kept == SelectSeq(reply.data, LAMBDA x : x.volume24h > 0)
           n == Len(kept)
           order == CHOOSE o \in [1..n -> 1..n] :
                      \A i, j \in 1..n :
                        i < j => \/ kept[o[i]].volume24h > kept[o[j]].volume24h
                                 \/ /\ kept[o[i]].volume24h = kept[o[j]].volume24h
                                    /\ o[i] < o[j]
       IN  [i \in 1..Min(limit.n, n) |-> kept[order[i]]]

\* SELECT ... FROM dex_pools WHERE tvl_usd > 0 ORDER BY tvl_usd DESC LIMIT
\* limit: the orders the database may return
TopPoolsByTvl(table, limit) ==
  LET S == {a \in DOMAIN table : table[a].tvl_usd > 0}
      k == Min(limit, Cardinality(S))
  IN  {[i \in 1..k |-> [address |-> o[i], tvlUsd |-> table[o[i]].tvl_usd]] :
         o \in {x \in [1..k -> S] :
                  /\ \A i, j \in 1..k : i < j => /\ x[i] # x[j]
                                                 /\ table[x[i]].tvl_usd >= table[x[j]].tvl_usd
                  /\ \A i \in 1..k : \A b \in S \ {x[j] : j \in 1..k} :
                       table[x[i]].tvl_usd >= table[b].tvl_usd}}

\* the response of GET /api/dex-analytics; failed tells whether the data
\* source failed in the request
DexResponse(q, pools, c, stamp, failed) ==
  [status |-> 200, type |-> q.type, pools |-> pools, cached |-> c, timestamp |-> stamp,
   failed |-> failed]

\* the query string (both pool lists, the cache asked for or bypassed, no
\* limit and two small limits) and the cache check; nothing is awaited
DaStart(p) ==
  /\ Accepts(p)
  /\ \E q \in
       {[kind |-> "dex", type |-> ty, limitGiven |-> FALSE, limit |-> <<>>, cache |-> c] :
          ty \in {"volume", "tvl"}, c \in {"", "false"}}
        \cup {[kind |-> "dex", type |-> ty, limitGiven |-> TRUE, limit |-> l, cache |-> ""] :
                ty \in {"volume", "tvl"}, l \in {<<"1">>, <<"2">>}} :
       /\ req' = [req EXCEPT ![p] = q]
       /\ IF q.cache # "false" /\ Fresh(dexCache[q.type], DEX_CACHE_TTL, now)
          THEN Answer(p, DexResponse(q, dexCache[q.type].data, TRUE,
                                     dexCache[q.type].timestamp, FALSE))
          ELSE /\ pc' = [pc EXCEPT ![p] = "da_fetch"]
               /\ resp' = [resp EXCEPT ![p] = NoResp]
  /\ UNCHANGED <<dexVars, alertVars, cache, loc, learnedVars, envVars, aggVars, eventVars>>

\* the await of the data source, the cache update and the response; a
\* failed SELECT goes to the catch branch.  source keeps what the entry was
\* computed from.
DaFetch(p) ==
  /\ pc[p] = "da_fetch"
  /\ LET q == req[p]
         \* Math.min(parseInt(searchParams.get('limit') || '20', 10), 100)
         parsed == ParseInt(IF q.limitGiven THEN q.limit ELSE <<"2", "0">>)
         limit == IF parsed.nan THEN NaN ELSE Number(Min(parsed.n, DEX_LIMIT_MAX))
         \* GeckoTerminal: a failed fetch, no pools, and a page of three
         \* pools of which one has no volume
         GeckoReplies ==
           {[ok |-> FALSE, data |-> <<>>],
            [ok |-> TRUE, data |-> <<>>],
            [ok |-> TRUE, data |-> <<[address |-> "p1", volume24h |-> 5],
                                     [address |-> "p2", volume24h |-> 0],
                                     [address |-> "p3", volume24h |-> 7]>>]}
         Store(pools, source) ==
           /\ dexCache' = [dexCache EXCEPT ![q.type] =
                             [data |-> pools, timestamp |-> now, source |-> source]]
           /\ Answer(p, DexResponse(q, pools, FALSE, now, q.type = "volume" /\ ~source.ok))
     IN  IF q.type = "volume"
         THEN \E reply \in GeckoReplies :
                Store(fetchTopPoolsByVolumeFromGecko(reply, limit), reply)
         ELSE IF storeUp /\ ~limit.nan
         THEN \E pools \in TopPoolsByTvl(dex_pools, limit.n) : Store(pools, dex_pools)
         ELSE /\ Answer(p, DexResponse(q, <<>>, FALSE, now, TRUE))
              /\ UNCHANGED dexCache
  /\ UNCHANGED <<lastSyncTime, dex_pools, alertVars, cache, req, loc, learnedVars, envVars, aggVars, eventVars, callVars>>

\* the clients come back when the entries are about to expire
Sleep ==
  /\ now = MaxTime
  /\ \E ttl \in {NETWORK_TTL, STATS_TTL} : now' = now + ttl - 1
  /\ UNCHANGED <<dexVars, alertVars, cache, storeUp, learnedVars, procVars, aggVars, eventVars, callVars>>

(***************************************************************************)
(* The environment.                                                        *)
(***************************************************************************)
StoreFails ==
  /\ storeUp
  /\ storeUp' = FALSE
  /\ UNCHANGED <<dexVars, alertVars, cache, now, learnedVars, procVars, aggVars, eventVars, callVars>>

StoreRecovers ==
  /\ ~storeUp
  /\ storeUp' = TRUE
  /\ UNCHANGED <<dexVars, alertVars, cache, now, learnedVars, procVars, aggVars, eventVars, callVars>>

\* time passes
Tick ==
  /\ now < MaxTime
  /\ now' = now + 1
  /\ UNCHANGED <<dexVars, alertVars, cache, storeUp, learnedVars, procVars, aggVars, eventVars, callVars>>

vars == <<envVars, learnedVars, procVars, aggVars, eventVars, callVars, alertVars, cache, dexVars>>

\* the scores the token can have when the requests begin, besides having no
\* row: a fresh row, a row close to the cap
InitScores == {0, MAX_POPULARITY - SELECT_POINTS}

InitLearned(seeds) ==
  /\ \/ /\ learned_tokens = <<>>
        /\ score0 = 0
     \/ \E s \in seeds :
          /\ learned_tokens = (ADDR_A :> [EnsuredRow(InteractionBody(ADDR_A, "select", DOGE))
                                          EXCEPT !.popularity_score = s])
          /\ score0 = s
  /\ token_interactions = EmptyBag
  /\ wallet_scan_contributions = {}

InitHandlers ==
  /\ storeUp = TRUE
  /\ now = 0
  /\ pc = [p \in Procs |-> "idle"]
  /\ req = [p \in Procs |-> NoReq]
  /\ loc = [p \in Procs |-> NoLoc]
  /\ resp = [p \in Procs |-> NoResp]
  /\ lastReq = NoReq
  /\ lastResp = NoResp
  /\ nreq = 0
  /\ trendingSeen = NoResp
  /\ lastSyncTime = EPOCH
  /\ dexCache = [t \in {"tvl", "volume"} |-> NoEntry]

\* the event tables hold the rows of earlier search requests
InitEvents(searches) ==
  /\ search_events = SetToBag(searches)
  /\ click_events = EmptyBag
  /\ token_search_index = <<>>

InitAgg ==
  /\ trending_searches = <<>>
  /\ logCalls = [a \in {ADDR_A, ADDR_B} |-> <<>>]
  /\ token_popularity = <<>>
  /\ dex_pools = <<>>

\* the state the alerts-counter migration leaves on an empty database, and
\* instances that have served nothing yet
InitAlerts(schemas) ==
  /\ triggered_alerts = EmptyBag
  /\ alert_counters = [total_alerts |-> 0]
  /\ alert_schema \in schemas
  /\ cache = [r \in Routes |-> NoEntry]

\* the state after deployment: an empty store
Init == InitHandlers /\ InitAgg /\ InitLearned({}) /\ InitEvents({}) /\ InitAlerts({"phase3"})

\* a store in which earlier requests have scored the token
InitSeeded == InitHandlers /\ InitAgg /\ InitLearned(InitScores) /\ InitEvents({}) /\ InitAlerts({"phase3"})

NextInteractions ==
  \/ \E p \in Procs : IxStart(p)
  \/ \E p \in Procs : IxEnsure(p)
  \/ \E p \in Procs : IxLog(p)
  \/ \E p \in Procs : IxUpdate(p)
  \/ StoreFails
  \/ StoreRecovers

SpecInteractions == InitSeeded /\ [][NextInteractions]_vars

NextUpsert ==
  \/ \E p \in Procs : LtStart(p)
  \/ \E p \in Procs : LtSelect(p)
  \/ \E p \in Procs : LtWrite(p)
  \/ \E p \in Procs : WsStart(p)
  \/ \E p \in Procs : WsSelect(p)
  \/ \E p \in Procs : WsWrite(p)
  \/ \E p \in Procs : WsContrib(p)
  \/ StoreFails
  \/ StoreRecovers

SpecUpsert == InitSeeded /\ [][NextUpsert]_vars

NextTrending ==
  \/ PostLog
  \/ GetTrending
  \/ Tick
  \/ StoreFails
  \/ StoreRecovers

SpecTrending == Init /\ [][NextTrending]_vars

NextPopularity ==
  \/ PostPopularity
  \/ GetPopularity
  \/ Tick
  \/ StoreFails
  \/ StoreRecovers

SpecPopularity == Init /\ [][NextPopularity]_vars

NextAnalytics ==
  \/ PostSearch
  \/ PostClick
  \/ StoreFails
  \/ StoreRecovers

SpecAnalytics == Init /\ [][NextAnalytics]_vars

\* a store in which a search for "doge" has been recorded
InitSearched ==
  /\ InitHandlers /\ InitAgg /\ InitLearned({}) /\ InitAlerts({"phase3"})
  /\ InitEvents({SearchRow(SearchBody(SESSION, DOGE, TRUE, <<ADDR_A>>, 1))})

NextPeers ==
  \/ PostClick
  \/ IndexToken
  \/ GetPeers
  \/ StoreFails
  \/ StoreRecovers

SpecPeers == InitSearched /\ [][NextPeers]_vars

\* the writes that are one statement each, issued by one client
NextWrites ==
  \/ nreq < MaxWrites /\ PostSearch
  \/ nreq < MaxWrites /\ PostClick
  \/ nreq < MaxWrites /\ PostLog
  \/ nreq < MaxWrites /\ PostPopularity
  \/ StoreFails
  \/ StoreRecovers

SpecWrites == Init /\ [][NextWrites]_vars

\* a database migrated by either script, empty
InitMigrated ==
  /\ InitHandlers /\ InitAgg /\ InitLearned({}) /\ InitEvents({})
  /\ InitAlerts({"phase3", "combined"})

\* every handler that writes a counter: concurrent requests to the handlers
\* of learned_tokens, or a sequence of requests to the single-statement
\* handlers of trending_searches and token_popularity.  The two families
\* write disjoint tables, so a behaviour exercises one of them; the store
\* is reachable throughout or lost before the first concurrent request.
NextCounters ==
  \/ \E p \in Procs : nreq = 0 /\ (IxStart(p) \/ IxEnsure(p) \/ IxLog(p) \/ IxUpdate(p))
  \/ \E p \in Procs : nreq = 0 /\ (LtStart(p) \/ LtSelect(p) \/ LtWrite(p))
  \/ \E p \in Procs : nreq = 0 /\ (WsStart(p) \/ WsSelect(p) \/ WsWrite(p) \/ WsContrib(p))
  \/ (\A p \in Procs : pc[p] = "idle") /\ nreq < MaxWrites /\ PostLog
  \/ (\A p \in Procs : pc[p] = "idle") /\ nreq < MaxWrites /\ PostPopularity
  \/ (\A p \in Procs : pc[p] = "idle") /\ StoreFails

SpecCounters == InitSeeded /\ [][NextCounters]_vars

\* a database whose search_events, as the migration creates it, holds events
\* of the last seven days; created_at is relative to the start of the run.
\* One token with a symbol on both sides of every boundary of the view, the
\* same token once without a symbol, a second token without symbol or name.
InitLogged ==
  LET EventLog ==
        {[id |-> i, address |-> ADDR_A, asset_type |-> "TOKEN", symbol |-> DOGE, name |-> DOGE,
          created_at |-> (<<1 - DAYS_7, 0 - HOURS_48, 1 - HOURS_48, 0 - HOURS_24, 1 - HOURS_24, 0>>)[i]]
           : i \in 1..6}
          \cup {[id |-> 7, address |-> ADDR_A, asset_type |-> "TOKEN", symbol |-> NULL, name |-> DOGE,
                 created_at |-> 0 - HOURS_24]}
          \cup {[id |-> 7 + i, address |-> ADDR_B, asset_type |-> "NFT", symbol |-> NULL, name |-> NULL,
                 created_at |-> (<<1 - HOURS_48, 1 - HOURS_24, 0>>)[i]]
                  : i \in 1..3}
  IN  /\ InitHandlers /\ InitAgg /\ InitLearned({}) /\ InitAlerts({"phase3"})
      /\ \E S \in SUBSET EventLog : InitEvents(S)

NextVelocity ==
  \/ SelectTrendingAssets
  \/ Tick

SpecVelocity == InitLogged /\ [][NextVelocity]_vars

NextSync ==
  \/ \E p \in Procs : SyStart(p)
  \/ \E p \in Procs : SyInsert(p)
  \/ GetSync
  \/ StoreFails
  \/ Tick
  \/ Sleep

SpecSync == Init /\ [][NextSync]_vars

\* an instance in front of a database that has been synced or not
InitSynced ==
  /\ InitHandlers /\ InitLearned({}) /\ InitEvents({}) /\ InitAlerts({"phase3"})
  /\ trending_searches = <<>>
  /\ logCalls = [a \in {ADDR_A, ADDR_B} |-> <<>>]
  /\ token_popularity = <<>>
  /\ dex_pools \in {<<>>, syncFactoryPools(<<>>, KNOWN_FACTORIES[1], 0)}

NextDex ==
  \/ \E p \in Procs : DaStart(p)
  \/ \E p \in Procs : DaFetch(p)
  \/ StoreFails
  \/ Tick

SpecDex == InitSynced /\ [][NextDex]_vars

NextAlerts ==
  \/ \E p \in Procs : TrStart(p)
  \/ \E p \in Procs : TrInsert(p)
  \/ \E p \in Procs : TrCount(p)
  \/ Tick
  \/ StoreFails
  \/ StoreRecovers

SpecAlerts == InitMigrated /\ [][NextAlerts]_vars

NextCache ==
  \/ \E p \in Procs : CgStart(p)
  \/ \E p \in Procs : CgRead(p)
  \/ \E p \in Procs : CgStore(p)
  \/ Tick
  \/ Sleep
  \/ StoreFails

SpecCache == Init /\ [][NextCache]_vars

(***************************************************************************)
(* Popularity increments of concurrent interactions.                       *)
(***************************************************************************)
\* the points of an interaction that was answered logged: true
CreditOf(p, a) ==
  IF /\ pc[p] = "done"
     /\ req[p].kind = "interaction"
     /\ resp[p].status = 200
     /\ resp[p].logged
     /\ AddressOf(req[p]) = a
  THEN (IF req[p].interactionType = "select" THEN 5
        ELSE IF req[p].interactionType = "click" THEN 3 ELSE 0)
  ELSE 0

RECURSIVE SumCredits(_, _)
SumCredits(S, a) ==
  IF S = {} THEN 0
  ELSE LET p == CHOOSE x \in S : TRUE IN CreditOf(p, a) + SumCredits(S \ {p}, a)

\* C1: under every interleaving of concurrent interactions on one token the
\* popularity_score is never above 100 and always equals
\* min(100, initial score + the points of every interaction answered
\* logged: true); in particular N selects from 0 end at min(100, 5 * N).
C1_IncrementsCappedAndNotLost ==
  \A a \in DOMAIN learned_tokens :
    /\ learned_tokens[a].popularity_score <= 100
    /\ learned_tokens[a].popularity_score =
         (IF score0 + SumCredits(Procs, a) > 100 THEN 100
          ELSE score0 + SumCredits(Procs, a))

\* every request was a logged select and together they pass the cap
C1_Witness ==
  /\ \A p \in Procs :
       /\ pc[p] = "done"
       /\ req[p].kind = "interaction"
       /\ req[p].interactionType = "select"
       /\ resp[p].status = 200
       /\ resp[p].logged
  /\ score0 + 5 * NumProcs > 100
  /\ ScoreOf(learned_tokens, ADDR_A) = 100

(***************************************************************************)
(* Concurrent POST /api/learned-tokens and POST /api/wallet-scan.          *)
(***************************************************************************)
\* C2: no learned-tokens or wallet-scan request fails because another
\* request created the row of the same token first.
C2_NoRequestLosesTheInsertRace ==
  \A p \in Procs :
    (pc[p] = "done" /\ req[p].kind \in {"learned", "scan"}) => resp[p].err # "23505"

(***************************************************************************)
(* The trending counters.                                                  *)
(***************************************************************************)
\* C3: after k >= 1 applied POST /api/trending/log upserts for an address, in
\* any letter case, trending_searches holds exactly one row for the
\* lower-cased address, with search_count = k, created_at the time of the
\* first and updated_at the time of the latest of them; an address never
\* logged has no row.
C3_LogCountsEveryCall ==
  /\ DOMAIN trending_searches \subseteq DOMAIN logCalls
  /\ \A a \in DOMAIN logCalls :
       IF logCalls[a] = <<>>
       THEN a \notin DOMAIN trending_searches
       ELSE /\ a \in DOMAIN trending_searches
            /\ trending_searches[a].search_count = Len(logCalls[a])
            /\ trending_searches[a].created_at = logCalls[a][1]
            /\ trending_searches[a].updated_at = logCalls[a][Len(logCalls[a])]

\* an address logged twice, in two spellings, at two different times
C3_Witness ==
  /\ Len(logCalls[ADDR_A]) = 2
  /\ lastReq.kind = "log"
  /\ lastReq.address = ADDR_A_MIXED
  /\ lastResp.status = 200
  /\ trending_searches[ADDR_A].search_count = 2
  /\ trending_searches[ADDR_A].created_at < trending_searches[ADDR_A].updated_at

\* C7: a GET /api/trending that asks for the cache, served by a reachable
\* store less than five minutes after a read with the same type and limit
\* (limit in [1, 100]) that was answered from the table and not by the
\* fallback of a failed query, returns the assets of that read and reports
\* cached: true.
C7_ReadsWithinTtlAreIdentical ==
  [][(/\ nreq' = nreq + 1
      /\ lastReq'.kind = "trending"
      /\ lastReq'.cache # "false"
      /\ storeUp
      /\ trendingSeen.status = 200
      /\ trendingSeen.cache # "false"
      /\ trendingSeen.cached
      /\ trendingSeen.limit \in 1..100
      /\ trendingSeen'.status = 200
      /\ trendingSeen'.type = trendingSeen.type
      /\ trendingSeen'.limit = trendingSeen.limit
      /\ trendingSeen'.at - trendingSeen.at < TRENDING_MAX_AGE)
     => /\ trendingSeen'.assets = trendingSeen.assets
        /\ trendingSeen'.cached]_vars

\* C8: a GET /api/trending with a valid type whose query fails, because the
\* store is unreachable or refuses a negative LIMIT, answers 200 with
\* assets = [] and cached = false, never 500.
C8_StorageFailureIsSoft ==
  [][(/\ nreq' = nreq + 1
      /\ lastReq'.kind = "trending"
      /\ lastReq'.type \in {"", "token", "NFT", "ALL"}
      /\ ~storeUp \/ (lastReq'.limitGiven /\ lastReq'.limit < 0))
     => /\ lastResp'.status = 200
        /\ lastResp'.assets = <<>>
        /\ ~lastResp'.cached]_vars

\* a read that asked for the cache, answered empty and uncached while the
\* store is down and the table has rows
C8_Witness ==
  /\ ~storeUp
  /\ lastReq.kind = "trending"
  /\ lastReq.cache # "false"
  /\ lastReq.limit >= 0
  /\ trending_searches # <<>>
  /\ lastResp.status = 200
  /\ lastResp.assets = <<>>
  /\ ~lastResp.cached

(***************************************************************************)
(* The token popularity counters.                                          *)
(***************************************************************************)
\* C4: a valid POST /api/trending/popularity adds 1 to searchCount exactly
\* when appearedInResults and 1 to clickCount exactly when wasClicked, and
\* sets lastSearchedAt (lastClickedAt) to the request timestamp only when
\* appearedInResults (wasClicked); otherwise the field keeps its value, or
\* stays empty on a new row.
C4_FlagsDecideCountersAndTimes ==
  [][(/\ nreq' = nreq + 1
      /\ lastReq'.kind = "popularity"
      /\ lastResp'.status = 200)
     => LET b == lastReq'
            a == b.tokenAddress
            old == IF a \in DOMAIN token_popularity
                   THEN token_popularity[a]
                   ELSE [search_count |-> 0, click_count |-> 0,
                         last_searched |-> NO_TIME, last_clicked |-> NO_TIME]
            new == token_popularity'[a]
        IN  /\ new.search_count = old.search_count + (IF b.appearedInResults THEN 1 ELSE 0)
            /\ new.click_count = old.click_count + (IF b.wasClicked THEN 1 ELSE 0)
            /\ new.last_searched =
                 (IF b.appearedInResults THEN b.timestamp ELSE old.last_searched)
            /\ new.last_clicked =
                 (IF b.wasClicked THEN b.timestamp ELSE old.last_clicked)]_vars

(***************************************************************************)
(* Peer recommendations.                                                   *)
(***************************************************************************)
\* the clicks on address a that a recommendation for q counts: click rows of
\* the last thirty days whose query was searched in the last thirty days and
\* resembles q
ClicksFor(q, a) ==
  LET searched == {x.query : x \in {y \in BagToSet(search_events) :
                                      Similar(y.query, q) /\ InWindow(y.timestamp, now)}}
      rows == {r \in BagToSet(click_events) :
                 /\ r.clicked_address = a
                 /\ r.query \in searched
                 /\ InWindow(r.timestamp, now)}
  IN  BagCardinality([r \in rows |-> CopiesIn(r, click_events)])

Candidates(q) ==
  {a \in {r.clicked_address : r \in BagToSet(click_events)} : ClicksFor(q, a) > 0}

RECURSIVE SumNumerators(_)
SumNumerators(recs) ==
  IF recs = <<>> THEN 0 ELSE Head(recs).score[1] + SumNumerators(Tail(recs))

RECURSIVE SumClicks(_, _)
SumClicks(q, S) ==
  IF S = {} THEN 0
  ELSE LET a == CHOOSE x \in S : TRUE IN ClicksFor(q, a) + SumClicks(q, S \ {a})

\* C5: in every answered GET /api/recommendations/peers, each score is the
\* address's click frequency over the summed frequencies of the top `limit`
\* candidates, counted before the asset-type filter: the returned scores sum
\* to at most 1, and to exactly 1 when the filter drops no candidate.
C5_ScoresAreSharesOfTheCandidates ==
  [][(/\ nreq' = nreq + 1
      /\ lastReq'.kind = "peers"
      /\ lastResp'.status = 200)
     => LET q == lastReq'.query
            recs == lastResp'.recommendations
            C == Candidates(q)
            Mapped(a) == /\ a \in DOMAIN token_search_index
                         /\ token_search_index[a].type = lastResp'.type
        IN  \A i \in DOMAIN recs :
              /\ recs[i].score[1] = ClicksFor(q, recs[i].address)
              /\ SumNumerators(recs) <= recs[i].score[2]
              /\ recs[i].score[2] <= SumClicks(q, C)
              /\ Cardinality(C) <= lastResp'.limit => recs[i].score[2] = SumClicks(q, C)
              /\ (\A a \in C : Mapped(a)) => SumNumerators(recs) = recs[i].score[2]]_vars

\* a recommendation whose score is a proper share: a candidate was filtered out
C5_Witness ==
  /\ lastReq.kind = "peers"
  /\ lastResp.status = 200
  /\ lastResp.recommendations # <<>>
  /\ lastResp.recommendations[1].score[1] < lastResp.recommendations[1].score[2]

\* C5 as stated, on responses whose candidates all have a row in
\* token_search_index: the scores of a non-empty list of recommendations sum
\* to 1.
C5_ReturnedScoresSumToOne ==
  [][(/\ nreq' = nreq + 1
      /\ lastReq'.kind = "peers"
      /\ lastResp'.status = 200
      /\ lastResp'.recommendations # <<>>
      /\ Candidates(lastReq'.query) \subseteq DOMAIN token_search_index)
     => \A i \in DOMAIN lastResp'.recommendations :
          SumNumerators(lastResp'.recommendations) = lastResp'.recommendations[i].score[2]]_vars

\* C6: an answered GET /api/recommendations/peers returns every candidate
\* among the top `limit` that token_search_index does not know, under the
\* name 'Unknown Token' and the symbol 'UNKNOWN'.
C6_UnmappedCandidateIsReturned ==
  [][(/\ nreq' = nreq + 1
      /\ lastReq'.kind = "peers"
      /\ lastResp'.status = 200
      /\ Cardinality(Candidates(lastReq'.query)) <= lastResp'.limit)
     => \A a \in Candidates(lastReq'.query) :
          a \notin DOMAIN token_search_index
            => \E i \in DOMAIN lastResp'.recommendations :
                 /\ lastResp'.recommendations[i].address = a
                 /\ lastResp'.recommendations[i].name = UNKNOWN_TOKEN
                 /\ lastResp'.recommendations[i].symbol = UNKNOWN]_vars

(***************************************************************************)
(* Validation of the analytics events.                                     *)
(***************************************************************************)
\* '0x' followed by forty hexadecimal digits
HexAddress(s) ==
  /\ Len(s) = 42
  /\ s[1] = "0"
  /\ s[2] = "x"
  /\ \A i \in 3..42 : s[i] \in HexLower \cup HexUpper

\* one of the rules is broken: the session id, the query length, the number
\* of results, an address
Broken(b) ==
  \/ Len(b.sessionId) # 64
  \/ \E i \in 1..Len(b.sessionId) : b.sessionId[i] \notin HexLower \cup HexUpper
  \/ Len(b.query) < 2
  \/ Len(b.query) > 500
  \/ b.kind = "search" /\ Len(b.results) > 100
  \/ b.kind = "search" /\ \E i \in 1..Len(b.results) : ~HexAddress(b.results[i])
  \/ b.kind = "click" /\ ~HexAddress(b.clickedAddress)

\* the body has its required fields: a results array and a timestamp in a
\* search, an integer rank in [0, 99] in a click
Complete(b) ==
  IF b.kind = "search"
  THEN b.resultsIsArray /\ b.timestamp # 0
  ELSE b.rankIsNumber /\ b.rankHalves \in 0..198 /\ b.rankHalves % 2 = 0

\* C9: POST /api/analytics/search and /click answer 400 and insert no row when
\* sessionId is not 64 hexadecimal characters, the query length is outside
\* [2, 500], results has more than 100 entries or an address is not '0x'
\* followed by 40 hexadecimal digits; a request with its required fields that
\* breaks no rule while the store answers is answered 200 and appends exactly
\* one row.
C9_EventsAreValidated ==
  [][(nreq' = nreq + 1 /\ lastReq'.kind \in {"search", "click"})
     => LET b == lastReq'
            table == IF b.kind = "search" THEN search_events ELSE click_events
            table2 == IF b.kind = "search" THEN search_events' ELSE click_events'
        IN  /\ Broken(b)
               => lastResp'.status = 400 /\ UNCHANGED <<search_events, click_events>>
            /\ (~Broken(b) /\ Complete(b) /\ storeUp)
               => /\ lastResp'.status = 200
                  /\ BagCardinality(table2) = BagCardinality(table) + 1
                  /\ table \sqsubseteq table2
                  /\ b.kind = "search" => UNCHANGED click_events
                  /\ b.kind = "click" => UNCHANGED search_events]_vars

\* C10: a POST /api/analytics/click whose resultRank is missing, no number,
\* no integer, below 0 or above 99 is answered 400 and writes no click row.
C10_RankIsAnIntegerInRange ==
  [][(/\ nreq' = nreq + 1
      /\ lastReq'.kind = "click"
      /\ \/ ~lastReq'.rankIsNumber
         \/ lastReq'.rankHalves % 2 # 0
         \/ lastReq'.rankHalves < 0
         \/ lastReq'.rankHalves > 198)
     => /\ lastResp'.status = 400
        /\ UNCHANGED click_events]_vars

(***************************************************************************)
(* A write that is issued again.                                           *)
(***************************************************************************)
\* the request is the previous request once more, both copies were answered
\* 200 and the store answers
Reissued ==
  /\ nreq' = nreq + 1
  /\ lastReq' = lastReq
  /\ lastReq.kind \in {"search", "click", "log", "popularity"}
  /\ lastResp.status = 200
  /\ lastResp'.status = 200
  /\ storeUp

C12_MissingParentIsNotAnError ==
  [][\A p \in Procs :
       (pc[p] = "ix_log" /\ pc'[p] # "ix_log")
         => /\ (storeUp /\ AddressOf(req[p]) \notin DOMAIN learned_tokens)
                 => /\ pc'[p] = "done"
                    /\ resp'[p].status = 200
                    /\ ~resp'[p].logged
                    /\ UNCHANGED <<learned_tokens, token_interactions>>
            /\ ~storeUp
                 => /\ pc'[p] = "done"
                    /\ resp'[p].status = 500
                    /\ UNCHANGED <<learned_tokens, token_interactions>>]_vars

\* a request whose ensure-token insert failed and whose log insert found no
\* parent row
C12_Witness ==
  \E p \in Procs :
    /\ pc[p] = "done"
    /\ req[p].kind = "interaction"
    /\ req[p].interactionType = "select"
    /\ resp[p].status = 200
    /\ ~resp[p].logged
    /\ storeUp
    /\ learned_tokens = <<>>
    /\ token_interactions = EmptyBag

\* C13: a POST /api/interactions answered logged: true has added exactly one
\* row to token_interactions, at its log step, and afterwards changed the
\* popularity_score of its token from s to min(100, s + d), d being 3 for a
\* click, 5 for a select and 0 for a search, whose request ends at the log
\* step with the score untouched.
C13_OneRowThenTheIncrement ==
  [][\A p \in Procs :
       LET a == AddressOf(req[p])
           ty == req[p].interactionType
           d == CASE ty = "click" -> 3 [] ty = "select" -> 5 [] OTHER -> 0
           logged == pc'[p] = "done" /\ resp'[p].status = 200 /\ resp'[p].logged
       IN /\ (pc[p] = "ix_log" /\ (pc'[p] = "ix_update" \/ logged))
               => /\ \E r \in BagToSet(token_interactions') :
                       /\ r.token_address = a
                       /\ r.interaction_type = ty
                       /\ token_interactions' = token_interactions (+) SetToBag({r})
                  /\ UNCHANGED learned_tokens
                  /\ logged <=> ty = "search"
          /\ (pc[p] = "ix_update" /\ logged)
               => /\ UNCHANGED token_interactions
                  /\ a \in DOMAIN learned_tokens
                  /\ DOMAIN learned_tokens' = DOMAIN learned_tokens
                  /\ learned_tokens'[a].popularity_score =
                       (IF learned_tokens[a].popularity_score + d > 100 THEN 100
                        ELSE learned_tokens[a].popularity_score + d)
                  /\ \A x \in DOMAIN learned_tokens \ {a} :
                       learned_tokens'[x] = learned_tokens[x]
          /\ (pc[p] # "done" /\ logged)
               => pc[p] = (IF d = 0 THEN "ix_log" ELSE "ix_update")]_vars

\* a click answered logged: true on a fresh row and a search answered
\* logged: true after it
C13_Witness ==
  /\ \A p \in Procs : pc[p] = "done" /\ resp[p].status = 200 /\ resp[p].logged
  /\ \E p \in Procs : req[p].interactionType = "click"
  /\ \E p \in Procs : req[p].interactionType = "search"
  /\ score0 = 0
  /\ ScoreOf(learned_tokens, ADDR_A) = 3
  /\ BagCardinality(token_interactions) = 2

C15_SecondTriggerIsSkipped ==
  [][\A p \in Procs :
       (/\ pc[p] = "tr_insert" /\ pc'[p] # "tr_insert"
        /\ storeUp
        /\ req[p].tokenAddress = <<>>)
         => LET Earlier(d) == {r \in BagToSet(triggered_alerts) :
                                 /\ r.alert_id = req[p].alertId
                                 /\ r.wallet_address = ToLowerCase(req[p].walletAddress)
                                 /\ r.triggered_at = now - d}
            IN  /\ Earlier(1) # {}
                     => alert_counters'.total_alerts = alert_counters.total_alerts
                /\ triggered_alerts = EmptyBag
                     => alert_counters'.total_alerts = alert_counters.total_alerts + 1]_vars

\* C16: in every reachable state alert_counters.total_alerts is the number
\* of rows of triggered_alerts, and every step adds to the counter what it
\* adds to the table, which is one row or none; this includes the steps of
\* triggers that run at the same time.
C16_CounterCountsTheRows ==
  /\ [](alert_counters.total_alerts = BagCardinality(triggered_alerts))
  /\ [][/\ alert_counters'.total_alerts - alert_counters.total_alerts
            = BagCardinality(triggered_alerts') - BagCardinality(triggered_alerts)
        /\ alert_counters'.total_alerts - alert_counters.total_alerts \in {0, 1}
        /\ \A r \in BagToSet(triggered_alerts) :
             CopiesIn(r, triggered_alerts') >= CopiesIn(r, triggered_alerts)]_vars

\* two triggers of one alert on one token ran their inserts at the same
\* time: one row was added, one insert was skipped, the counter is 1
C16_Witness ==
  /\ \A p \in Procs : pc[p] = "tr_count" /\ req[p].tokenAddress # <<>>
  /\ alert_counters.total_alerts = 1
  /\ BagCardinality(triggered_alerts) = 1
  /\ storeUp

(***************************************************************************)
(* The in-memory caches.                                                   *)
(***************************************************************************)
\* the handler p takes a request of a cached route in this step
Started(p) ==
  /\ pc[p] = "idle" /\ pc'[p] # "idle"
  /\ req'[p].kind = "cached"

\* C17: a GET /api/stats (TTL 300 s) or GET /api/network-health (TTL 10 s)
\* that does not send cache=false is answered in its first step, with the
\* data and the time of the stored entry and cached: true, the entry left as
\* it is, exactly when the route has an entry whose age is below the TTL;
\* every other request goes on to the data source, and when the source has
\* answered it stores the data it read with the current time and answers
\* them with cached: false.
C17_FreshEntriesAreServed ==
  [][\A p \in Procs :
       /\ Started(p)
            => LET r == req'[p].route
                   ttl == IF r = "stats" THEN 300 ELSE 10
                   hit == /\ req'[p].cache # "false"
                          /\ cache[r] # NoEntry
                          /\ now - cache[r].timestamp < ttl
               IN  /\ cache' = cache
                   /\ hit => /\ pc'[p] = "done"
                              /\ resp'[p].status = 200
                              /\ resp'[p].cached
                              /\ resp'[p].data = cache[r].data
                              /\ resp'[p].timestamp = cache[r].timestamp
                   /\ ~hit => pc'[p] = "cg_read"
       /\ (pc[p] = "cg_read" /\ pc'[p] # "cg_read")
            => /\ cache' = cache
               /\ pc'[p] = "done" => ~resp'[p].cached
       /\ (pc[p] = "cg_store" /\ pc'[p] # "cg_store")
            => /\ pc'[p] = "done"
               /\ ~resp'[p].cached
               /\ storeUp \/ req[p].route # "stats"
                    => /\ cache'[req[p].route].data = resp'[p].data
                       /\ cache'[req[p].route].timestamp = now
                       /\ resp'[p].data =
                            (IF req[p].route = "stats"
                             THEN [searches |-> loc[p].part,
                                   alerts |-> BagCardinality(triggered_alerts)]
                             ELSE [currentBlockNumber |-> loc[p].part])
                       /\ \A x \in Routes \ {req[p].route} : cache'[x] = cache[x]]_vars

\* a network-health read answered from an entry one second before it
\* expires, while the chain has moved on
C17_Witness ==
  \E p \in Procs :
    /\ pc[p] = "done"
    /\ req[p].kind = "cached"
    /\ req[p].route = "network-health"
    /\ resp[p].cached
    /\ resp[p].at - resp[p].timestamp = 9
    /\ resp[p].data.currentBlockNumber # LatestBlock(now)

\* C18: every response with cached: true carries values that left the data
\* source no more than one TTL before the response.
C18_StalenessWithinTtl ==
  \A p \in Procs :
    (pc[p] = "done" /\ req[p].kind = "cached" /\ resp[p].cached)
      => resp[p].at - resp[p].readAt <= (IF req[p].route = "stats" THEN 300 ELSE 10)

(***************************************************************************)
(* The parameters of GET /api/recommendations/peers.                       *)
(***************************************************************************)
\* the decimal text of a number below 100
Decimal(n) ==
  LET D == <<"0", "1", "2", "3", "4", "5", "6", "7", "8", "9">>
  IN  IF n < 10 THEN <<D[n + 1]>> ELSE <<D[(n \div 10) + 1], D[(n % 10) + 1]>>

\* C19: a GET /api/recommendations/peers whose query is missing, shorter
\* than 2 or longer than 500 characters, whose limit is given and is not the
\* text of an integer from 1 to 20, or whose type is given and is neither
\* TOKEN nor NFT, is answered 400.
C19_BadParametersAreRejected ==
  [][(/\ nreq' = nreq + 1
      /\ lastReq'.kind = "peers"
      /\ \/ Len(lastReq'.query) < 2
         \/ Len(lastReq'.query) > 500
         \/ lastReq'.limitGiven /\ lastReq'.limit \notin {Decimal(n) : n \in 1..20}
         \/ lastReq'.type \notin {"", "TOKEN", "NFT"})
     => lastResp'.status = 400]_vars

(***************************************************************************)
(* The click-through rate.                                                 *)
(***************************************************************************)
\* C20: the ctr of every token in a GET /api/trending/popularity response
\* is its clickCount divided by its searchCount, and 0 while its searchCount
\* is 0 (ctr is in hundredths).
C20_CtrIsClicksPerSearch ==
  [][(/\ nreq' = nreq + 1
      /\ lastReq'.kind = "popularity_get"
      /\ lastResp'.status = 200)
     => \A k \in DOMAIN lastResp'.popularity :
          LET e == lastResp'.popularity[k]
          IN  IF e.searchCount = 0 THEN e.ctr = 0
              ELSE e.ctr * e.searchCount = 100 * e.clickCount]_vars

(***************************************************************************)
(* One row per token.                                                      *)
(***************************************************************************)
\* C21: token_popularity never holds two rows whose addresses differ in
\* letter case only, and a GET /api/trending/popularity for an address that
\* was updated in any accepted letter case returns its row.
C21_OneRowPerToken ==
  /\ [](\A a, b \in DOMAIN token_popularity : ToLowerCase(a) = ToLowerCase(b) => a = b)
  /\ [][(/\ nreq' = nreq + 1
         /\ lastReq'.kind = "popularity_get"
         /\ lastResp'.status = 200)
        => \A i \in 1..Len(lastReq'.addresses) :
             (\E a \in DOMAIN token_popularity :
                ToLowerCase(a) = ToLowerCase(lastReq'.addresses[i]))
               => ToLowerCase(lastReq'.addresses[i]) \in DOMAIN lastResp'.popularity]_vars

(***************************************************************************)
(* The velocity score of GET /api/trending.                                *)
(***************************************************************************)
\* C23: every asset of a GET /api/trending response has velocityScore 0
\* when previousSearches is 0, and otherwise (recentSearches /
\* previousSearches) * 100 rounded to the nearest integer.
C23_VelocityIsTheRatio ==
  [][(nreq' = nreq + 1 /\ lastReq'.kind = "trending")
     => \A i \in 1..Len(lastResp'.assets) :
          LET a == lastResp'.assets[i]
          IN  a.velocityScore =
                (IF a.previousSearches = 0
                 THEN 0
                 ELSE (200 * a.recentSearches + a.previousSearches)
                        \div (2 * a.previousSearches))]_vars

(***************************************************************************)
(* The symbol and name of a logged asset.                                  *)
(***************************************************************************)
\* C28: a POST /api/trending/log for an address that already has a row
\* leaves the stored symbol (name) unchanged when the body omits it, and a
\* stored symbol or name is only ever replaced by a non-empty value.
C28_OmittedSymbolIsKept ==
  [][\A a \in DOMAIN trending_searches :
       /\ a \in DOMAIN trending_searches'
       /\ (nreq' = nreq + 1 /\ lastReq'.kind = "log" /\ lastReq'.symbol = <<>>)
            => trending_searches'[a].symbol = trending_searches[a].symbol
       /\ (nreq' = nreq + 1 /\ lastReq'.kind = "log" /\ lastReq'.name = <<>>)
            => trending_searches'[a].name = trending_searches[a].name
       /\ trending_searches'[a].symbol # trending_searches[a].symbol
            => trending_searches'[a].symbol \notin {NULL, <<>>}
       /\ trending_searches'[a].name # trending_searches[a].name
            => trending_searches'[a].name \notin {NULL, <<>>}]_vars

(***************************************************************************)
(* The logged flag.                                                        *)
(***************************************************************************)
\* C29: a POST /api/trending/log that answers logged: true has applied its
\* upsert to trending_searches, and one whose statement failed answers
\* logged: false.
C29_LoggedMeansWritten ==
  [][(nreq' = nreq + 1 /\ lastReq'.kind = "log")
     => /\ lastResp'.logged => trending_searches' # trending_searches
        /\ (lastResp'.status = 200 /\ ~storeUp) => ~lastResp'.logged]_vars

(***************************************************************************)
(* Interactions answered with an error.                                    *)
(***************************************************************************)
\* C30: a POST /api/interactions answered 400 or 500 has inserted no
\* token_interactions row and changed no popularity_score (stated for a
\* request served alone on the initial store, where every change is its
\* own), and a popularity_score is only ever raised by a request whose
\* token_interactions row is in the table.
C30_ErrorsLeaveTheStoreAlone ==
  [][\A p \in Procs :
       /\ (/\ pc[p] # "done" /\ pc'[p] = "done"
           /\ resp'[p].status \in {400, 500}
           /\ \A q \in Procs \ {p} : pc'[q] = "idle")
            => /\ token_interactions' = EmptyBag
               /\ ScoreOf(learned_tokens', ADDR_A) = score0
       /\ (pc[p] = "ix_update" /\ learned_tokens' # learned_tokens)
            => BagIn(InteractionRow(req[p]), token_interactions)]_vars

(***************************************************************************)
(* Counters only grow.                                                     *)
(***************************************************************************)
\* C24: no step of any request deletes a token_popularity,
\* trending_searches or learned_tokens row or lowers searchCount,
\* clickCount, search_count, scan_frequency or popularity_score, and
\* popularity_score stays within [0, 100].
C24_CountersOnlyGrow ==
  /\ [](\A a \in DOMAIN learned_tokens :
          learned_tokens[a].popularity_score \in 0..100)
  /\ [][(\A b \in DOMAIN token_popularity :
            /\ b \in DOMAIN token_popularity'
            /\ token_popularity'[b].search_count >= token_popularity[b].search_count
            /\ token_popularity'[b].click_count >= token_popularity[b].click_count)
        /\ (\A c \in DOMAIN trending_searches :
            /\ c \in DOMAIN trending_searches'
            /\ trending_searches'[c].search_count >= trending_searches[c].search_count)
        /\ (\A d \in DOMAIN learned_tokens :
            /\ d \in DOMAIN learned_tokens'
            /\ learned_tokens'[d].scan_frequency >= learned_tokens[d].scan_frequency
            /\ learned_tokens'[d].popularity_score >= learned_tokens[d].popularity_score)]_vars

\* a seeded token raised to the cap and scanned twice by concurrent requests
C24_Witness ==
  /\ ADDR_A \in DOMAIN learned_tokens
  /\ score0 = MAX_POPULARITY - SELECT_POINTS
  /\ learned_tokens[ADDR_A].popularity_score = 100
  /\ learned_tokens[ADDR_A].scan_frequency >= DEFAULT_SCAN_FREQUENCY + 2
  /\ \A p \in Procs : pc[p] = "done"

(***************************************************************************)
(* The velocity ranking.                                                   *)
(***************************************************************************)
\* C22: in every read of trending_assets_view each row counts its events
\* once: recent_searches are its events younger than 24 hours,
\* previous_searches those at least 24 and less than 48 hours old,
\* total_searches those younger than 7 days; older events are in no row and
\* stay in the table; velocity_score is 0 when previous_searches is 0 and
\* recent_searches / previous_searches * 100 otherwise; the rows are in
\* descending order of velocity_score, then of total_searches.
C22_EachEventInOnePeriod ==
  [][(nreq' = nreq + 1 /\ lastReq'.kind = "view")
     => LET rows == lastResp'.rows
            Age(e) == now - e.created_at
            Of(r) == {e \in BagToSet(search_events) :
                        /\ e.address = r.address
                        /\ e.asset_type = r.asset_type
                        /\ (IF e.symbol = NULL THEN <<"T", "O", "K", "E", "N">> ELSE e.symbol) = r.symbol
                        /\ (IF e.name = NULL THEN <<"T", "o", "k", "e", "n">> ELSE e.name) = r.name}
            Times(x, r) == x * r.velocity_score.den
        IN  /\ search_events' = search_events
            /\ \A e \in BagToSet(search_events) :
                 Age(e) < DAYS_7 => Cardinality({i \in 1..Len(rows) : e \in Of(rows[i])}) = 1
            /\ \A i \in 1..Len(rows) :
                 LET r == rows[i] IN
                 /\ r.recent_searches = Cardinality({e \in Of(r) : Age(e) < HOURS_24})
                 /\ r.previous_searches =
                      Cardinality({e \in Of(r) : Age(e) >= HOURS_24 /\ Age(e) < HOURS_48})
                 /\ r.total_searches = Cardinality({e \in Of(r) : Age(e) < DAYS_7})
                 /\ r.recent_searches + r.previous_searches <= r.total_searches
                 /\ IF r.previous_searches = 0
                    THEN r.velocity_score.num = 0
                    ELSE r.velocity_score.num * r.previous_searches
                           = r.recent_searches * 100 * r.velocity_score.den
                 /\ \A j \in 1..Len(rows) :
                      i < j =>
                        /\ rows[j] # r
                        /\ \/ Times(rows[j].velocity_score.num, r) < Times(r.velocity_score.num, rows[j])
                           \/ /\ Times(rows[j].velocity_score.num, r) = Times(r.velocity_score.num, rows[j])
                              /\ rows[j].total_searches <= r.total_searches]_vars

\* a read one second after the start: the token with one recent event, one
\* of exactly 24 hours and one older than 48 hours (score 100, total 3) is
\* ranked above the token without previous events (score 0), and its event
\* of exactly 7 days is in the table and in no row
C22_Witness ==
  /\ lastReq.kind = "view"
  /\ now = 1
  /\ Len(lastResp.rows) = 2
  /\ lastResp.rows[1].address = ADDR_A
  /\ lastResp.rows[1].recent_searches = 1
  /\ lastResp.rows[1].previous_searches = 1
  /\ lastResp.rows[1].total_searches = 3
  /\ lastResp.rows[1].velocity_score = [num |-> 100, den |-> 1]
  /\ lastResp.rows[2].address = ADDR_B
  /\ lastResp.rows[2].velocity_score.num = 0
  /\ \E e \in BagToSet(search_events) : now - e.created_at = DAYS_7
  /\ \E e \in BagToSet(search_events) : now - e.created_at = HOURS_24

(***************************************************************************)
(* The rate limit of the sync.                                             *)
(***************************************************************************)
\* C25: a POST /api/dex-analytics/sync without force=true that arrives less
\* than 5 minutes after the start of the last performed sync, or of a sync
\* that is still running, is answered 429 and writes nothing, and GET
\* /api/dex-analytics/sync reports canSync: true exactly when a non-forced
\* POST at that moment would be accepted.
C25_OneSyncPerWindow ==
  [][/\ \A p \in Procs :
          (pc[p] = "idle" /\ pc'[p] # "idle" /\ req'[p].kind = "sync" /\ ~req'[p].force)
            => IF \/ now - lastSyncTime < MIN_SYNC_INTERVAL
                  \/ \E q \in Procs : /\ pc[q] = "sy_insert"
                                       /\ now - loc[q].now < MIN_SYNC_INTERVAL
               THEN /\ pc'[p] = "done"
                    /\ resp'[p].status = 429
                    /\ UNCHANGED <<dex_pools, lastSyncTime>>
               ELSE pc'[p] = "sy_insert"
     /\ (nreq' = nreq + 1 /\ pc' = pc /\ lastReq'.kind = "sync_status")
          => (lastResp'.canSync <=> ~(now - lastSyncTime < MIN_SYNC_INTERVAL))]_vars

(***************************************************************************)
(* The cache of GET /api/dex-analytics.                                    *)
(***************************************************************************)
\* C26: a GET /api/dex-analytics whose data source failed returns the
\* default payload with cached: false and leaves the cache entry as it was,
\* and no request is served as cached: true a payload that a failure
\* produced.
C26_FailuresAreNotCached ==
  [][\A p \in Procs :
       /\ (pc[p] = "da_fetch" /\ pc'[p] = "done" /\ resp'[p].failed)
            => /\ resp'[p].pools = <<>>
               /\ ~resp'[p].cached
               /\ dexCache' = dexCache
       /\ (pc[p] = "idle" /\ pc'[p] = "done" /\ req'[p].kind = "dex" /\ resp'[p].cached)
            => (req'[p].type = "volume" => dexCache[req'[p].type].source.ok)]_vars

\* C27: a GET /api/dex-analytics response for type tvl or volume holds at
\* most min(limit, 100) pools, and one served from the cache is what a
\* computation with the requested limit would have returned on the data the
\* entry was computed from.
C27_CacheRespectsTheLimit ==
  [][\A p \in Procs :
       (pc[p] # "done" /\ pc'[p] = "done" /\ req'[p].kind = "dex" /\ ~resp'[p].failed)
         => LET q == req'[p]
                limit == IF q.limitGiven
                         THEN (IF q.limit = <<"1">> THEN 1 ELSE 2)
                         ELSE 20
                e == dexCache[q.type]
            IN  /\ Len(resp'[p].pools) <= limit
                /\ Len(resp'[p].pools) <= 100
                /\ resp'[p].cached
                     => IF q.type = "volume"
                        THEN resp'[p].pools
                               = fetchTopPoolsByVolumeFromGecko(e.source, Number(limit))
                        ELSE resp'[p].pools \in TopPoolsByTvl(e.source, limit)]_vars

====
